---- MODULE Spec2Model ----
(***************************************************************************)
(* miniPy: the parser (parser.py), the scope checker (semantic.py), the    *)
(* AST-walking interpreter (interpreter.py) and the driver run_file        *)
(* (cli.py) as one state machine.                                          *)
(*                                                                         *)
(* Checker and interpreter are recursive tree walks.  Their recursion is    *)
(* explicit: kont is the stack of pending handler invocations and of the   *)
(* positions inside handlers that wait for a sub-evaluation, vals is the   *)
(* stack of values returned by eval_expr.  One action per handler (and per *)
(* resumption point of a handler).                                         *)
(***************************************************************************)
EXTENDS Integers, Sequences, FiniteSets, TLC

(***************************************************************************)
(* Bounds of the model.                                                    *)
(***************************************************************************)
\* largest argument of the recursive example programs (fib(MaxArg), fact(MaxArg))
MaxArg == 6
\* the literals used for the values bound by the generated programs are 1..MaxLit
MaxLit == 2
\* largest upper limit of the summing while loop
MaxSum == 4
\* longest generated program, in statements
MaxStmts == 3
\* the number literals of the source texts handed to run_file are 0..MaxOperand
MaxOperand == 1

(***************************************************************************)
(* AST nodes (ast_nodes.py).  kind is type(node).__name__.                 *)
(***************************************************************************)
NoneNode == [kind |-> "NoneType"]
NumberNode(value) == [kind |-> "NumberNode", value |-> value]
IdentifierNode(name, lineno) ==
    [kind |-> "IdentifierNode", name |-> name, lineno |-> lineno]
BinaryOpNode(left, operator, right) ==
    [kind |-> "BinaryOpNode", left |-> left, operator |-> operator, right |-> right]
AssignmentNode(name, value) ==
    [kind |-> "AssignmentNode", name |-> name, value |-> value]
IfNode(condition, then_body, elifs, else_body) ==
    [kind |-> "IfNode", condition |-> condition, then_body |-> then_body,
     elifs |-> elifs, else_body |-> else_body]
WhileNode(condition, body) ==
    [kind |-> "WhileNode", condition |-> condition, body |-> body]
FunctionDefNode(name, params, body) ==
    [kind |-> "FunctionDefNode", name |-> name, params |-> params, body |-> body]
ReturnNode(value) == [kind |-> "ReturnNode", value |-> value]
CallNode(func, args, lineno) ==
    [kind |-> "CallNode", func |-> func, args |-> args, lineno |-> lineno]
Program(body) == [kind |-> "Program", body |-> body]

\* the node kinds the parser builds in expression position
ExprKinds == {"NumberNode", "IdentifierNode", "BinaryOpNode", "CallNode"}

(***************************************************************************)
(* Runtime values.  Python's None, int, float, bool, the builtin print and *)
(* FunctionValue.  A float is the quotient of a true division; it is kept  *)
(* as the exact fraction p/q in lowest terms with q > 0.                   *)
(***************************************************************************)
NoneV == [t |-> "none"]
Num(n) == [t |-> "num", n |-> n]
Float(p, q) == [t |-> "float", p |-> p, q |-> q]
Bool(b) == [t |-> "bool", b |-> b]
Builtin(name) == [t |-> "builtin", name |-> name]
FunctionValue(params, body, env) ==
    [t |-> "fn", params |-> params, body |-> body, env |-> env]

\* Python truth value of a runtime value (if cond: / while cond:)
Truthy(v) ==
    CASE v.t = "none" -> FALSE
      [] v.t = "num"  -> v.n # 0
      [] v.t = "float" -> v.p # 0
      [] v.t = "bool" -> v.b
      [] OTHER        -> TRUE

IsNumeric(v) == v.t \in {"num", "float", "bool"}
\* bool is a subclass of int
AsInt(v) == IF v.t = "bool" THEN (IF v.b THEN 1 ELSE 0) ELSE v.n
\* a numeric value as the fraction Numer/Denom
Numer(v) == IF v.t = "float" THEN v.p ELSE AsInt(v)
Denom(v) == IF v.t = "float" THEN v.q ELSE 1

RECURSIVE gcd(_, _)
gcd(a, b) == IF b = 0 THEN a ELSE gcd(b, a % b)

\* the float p/q, q # 0
Fraction(p, q) ==
    LET s == IF q < 0 THEN -1 ELSE 1
        g == gcd(IF p < 0 THEN -p ELSE p, IF q < 0 THEN -q ELSE q)
    IN  Float((s * p) \div g, (s * q) \div g)

NoError == [kind |-> "none"]

VARIABLES
    mode,        \* the entry point invoked: "interpret" (Interpreter.run), "analyze" (SemanticAnalyzer.analyze) or "run_file" (cli.run_file)
    tokens,      \* Parser.tokens: the tokens of the source text handed to run_file
    backend,     \* the backend argument of run_file: "interpret" | "transpile"
    rc,          \* the value run_file returned, <<>> while it has not returned
    program,     \* the Program handed to the entry point; root of run_file, NoneNode until parse returned
    status,      \* "parsing" | "parse_error" | "checking" | "accepted" | "rejected" | "running" | "executing" | "done" | "failed"
    error,       \* the exception that ended the run, NoError while there is none
    kont,        \* pending handler invocations and handler resumption points, innermost first
    vals,        \* values returned by the completed eval_expr calls not yet consumed, newest last
    env_stack,   \* Interpreter.env_stack
    returning,   \* a ReturnException is propagating
    retval,      \* ReturnException.value of the propagating exception
    output,      \* the argument tuples print was called with, in order
    scopes       \* SymbolTable.scopes

vars == <<mode, tokens, backend, rc, program, status, error, kont, vals, env_stack, returning, retval, output, scopes>>

(***************************************************************************)
(* Environment helpers of the interpreter.                                 *)
(***************************************************************************)
\* Interpreter.__init__: global_env = {"print": print}
global_env == [n \in {"print"} |-> Builtin("print")]

current_env(stack) == stack[Len(stack)]

push_env(stack, newenv) == Append(stack, newenv)

pop_env(stack) == SubSeq(stack, 1, Len(stack) - 1)

\* d[name] = v on a dict
Bind(env, name, v) ==
    [n \in DOMAIN env \cup {name} |-> IF n = name THEN v ELSE env[n]]

\* for s in reversed(env_stack): if name in s: ...   (0: no frame binds name)
FindFrame(stack, name) ==
    LET idx == {i \in 1..Len(stack) : name \in DOMAIN stack[i]}
    IN  IF idx = {} THEN 0 ELSE CHOOSE i \in idx : \A j \in idx : j <= i

\* the binding written to the frame the name is found in
AssignInStack_Found(stack, name, v) ==
    LET f == IF FindFrame(stack, name) = 0 THEN Len(stack) ELSE FindFrame(stack, name)
    IN  [stack EXCEPT ![f] = Bind(stack[f], name, v)]

\* self.current_env()[node.name] = v
AssignInStack(stack, name, v) ==
    [stack EXCEPT ![Len(stack)] = Bind(stack[Len(stack)], name, v)]

\* a snapshot of the global frame instead of the current one
CaptureEnv_Global(stack) == stack[1]

\* env=dict(self.current_env()) : the snapshot taken by a function definition
CaptureEnv(stack) == current_env(stack)

\* dict(self.current_env()) : the frame pushed for an if branch or a while iteration
BlockEnv(stack) == current_env(stack)

\* a parameter without an argument left out of the frame
NewEnv_Unbound(fn, args) ==
    LET ps == {fn.params[i] : i \in 1..Len(fn.params)}
        given == {fn.params[i] : i \in 1..Len(fn.params)} \cap
                 {fn.params[i] : i \in 1..Len(args)}
    IN  [n \in (DOMAIN fn.env \ ps) \cup given |->
            IF n \in given
            THEN args[CHOOSE i \in 1..Len(args) : fn.params[i] = n]
            ELSE fn.env[n]]

\* newenv = dict(fn.env); newenv[p] = args[i] if i < len(args) else None
NewEnv(fn, args) ==
    LET ps == {fn.params[i] : i \in 1..Len(fn.params)}
        last(p) == CHOOSE i \in 1..Len(fn.params) :
                      /\ fn.params[i] = p
                      /\ \A j \in 1..Len(fn.params) : fn.params[j] = p => j <= i
    IN  [n \in DOMAIN fn.env \cup ps |->
            IF n \in ps
            THEN (IF last(n) <= Len(args) THEN args[last(n)] ELSE NoneV)
            ELSE fn.env[n]]

(***************************************************************************)
(* Continuation items.                                                     *)
(***************************************************************************)
\* a pending eval_stmt(n) / eval_expr(n) / visit(n)
Node(n) == [op |-> "node", node |-> n]
\* for s in stmts: self.eval_stmt(s)      (position i)
Body(stmts) == [op |-> "body", stmts |-> stmts, i |-> 1]
\* the return value of an expression statement is dropped by the loop
Discard == [op |-> "discard"]
AssignBind(name) == [op |-> "assign_bind", name |-> name]
BinaryOpApply(operator) == [op |-> "binop_apply", operator |-> operator]
CallApply(fn, nargs) == [op |-> "call_apply", fn |-> fn, nargs |-> nargs]
\* the try block of eval_CallNode; depth and top record the environment
\* stack as it was immediately before push_env(newenv)
CallTry(depth, top) == [op |-> "call_try", depth |-> depth, top |-> top]
Raise == [op |-> "raise"]
IfTest(node, k) == [op |-> "if_test", node |-> node, k |-> k]
WhileTest(node) == [op |-> "while_test", node |-> node]
PopEnv == [op |-> "pop_env"]
\* self.symtab.insert(node.name) after the visit of the right-hand side
SymtabInsert(name) == [op |-> "symtab_insert", name |-> name]
\* self.symtab.exit() after the visit of a function body; outer records the
\* scope stack as it was when the function scope was entered
SymtabExit(outer) == [op |-> "symtab_exit", outer |-> outer]

NodeItems(nodes) == [i \in 1..Len(nodes) |-> Node(nodes[i])]

HeadIs(o) == kont # <<>> /\ Head(kont).op = o
HeadNode(k) == HeadIs("node") /\ Head(kont).node.kind = k

\* control is inside Interpreter.run, called directly or by run_file
Interpreting == mode \in {"interpret", "run_file"} /\ status = "running" /\ ~returning

\* raise: e holds the exception's class and what its message tells (the
\* name and the line, for the exceptions the interpreter builds itself)
Fail(e) ==
    /\ status' = "failed"
    /\ error' = e
    /\ kont' = <<>>
    /\ UNCHANGED <<vals, env_stack, returning, retval, output>>

(***************************************************************************)
(* Interpreter (interpreter.py).                                           *)
(***************************************************************************)
\* Interpreter.run: for s in program.body: self.eval_stmt(s); the loop of a
\* function body or of a block.  An expression statement's value is dropped.
ForBody ==
    /\ Interpreting
    /\ HeadIs("body")
    /\ LET it == Head(kont) IN
         IF it.i > Len(it.stmts)
         THEN kont' = Tail(kont)
         ELSE LET s == it.stmts[it.i]
                  next == [it EXCEPT !.i = it.i + 1]
              IN  kont' = IF s.kind \in ExprKinds
                          THEN <<Node(s), Discard, next>> \o Tail(kont)
                          ELSE <<Node(s), next>> \o Tail(kont)
    /\ UNCHANGED <<mode, tokens, backend, rc, program, status, error, vals, env_stack, returning, retval, output, scopes>>

DiscardValue ==
    /\ Interpreting
    /\ HeadIs("discard")
    /\ kont' = Tail(kont)
    /\ vals' = SubSeq(vals, 1, Len(vals) - 1)
    /\ UNCHANGED <<mode, tokens, backend, rc, program, status, error, env_stack, returning, retval, output, scopes>>

\* eval_AssignmentNode, first half: v = self.eval_expr(node.value)
eval_AssignmentNode ==
    /\ Interpreting
    /\ HeadNode("AssignmentNode")
    /\ LET n == Head(kont).node IN
         kont' = <<Node(n.value), AssignBind(n.name)>> \o Tail(kont)
    /\ UNCHANGED <<mode, tokens, backend, rc, program, status, error, vals, env_stack, returning, retval, output, scopes>>

\* eval_AssignmentNode, second half: self.current_env()[node.name] = v
eval_AssignmentNode_bind ==
    /\ Interpreting
    /\ HeadIs("assign_bind")
    /\ env_stack' = AssignInStack(env_stack, Head(kont).name, vals[Len(vals)])
    /\ vals' = SubSeq(vals, 1, Len(vals) - 1)
    /\ kont' = Tail(kont)
    /\ UNCHANGED <<mode, tokens, backend, rc, program, status, error, returning, retval, output, scopes>>

eval_NumberNode ==
    /\ Interpreting
    /\ HeadNode("NumberNode")
    /\ vals' = Append(vals, Num(Head(kont).node.value))
    /\ kont' = Tail(kont)
    /\ UNCHANGED <<mode, tokens, backend, rc, program, status, error, env_stack, returning, retval, output, scopes>>

eval_IdentifierNode ==
    /\ Interpreting
    /\ HeadNode("IdentifierNode")
    /\ LET n == Head(kont).node
           f == FindFrame(env_stack, n.name)
       IN  IF f = 0
           THEN Fail([kind |-> "NameError", name |-> n.name, lineno |-> n.lineno])
           ELSE /\ vals' = Append(vals, env_stack[f][n.name])
                /\ kont' = Tail(kont)
                /\ UNCHANGED <<status, error, env_stack, returning, retval, output>>
    /\ UNCHANGED <<mode, tokens, backend, rc, program, scopes>>

\* eval_BinaryOpNode, first half: l = eval_expr(left); r = eval_expr(right)
eval_BinaryOpNode ==
    /\ Interpreting
    /\ HeadNode("BinaryOpNode")
    /\ LET n == Head(kont).node IN
         kont' = <<Node(n.left), Node(n.right), BinaryOpApply(n.operator)>> \o Tail(kont)
    /\ UNCHANGED <<mode, tokens, backend, rc, program, status, error, vals, env_stack, returning, retval, output, scopes>>

\* Python == on two runtime values
ValEq(l, r) ==
    IF IsNumeric(l) /\ IsNumeric(r) THEN Numer(l) * Denom(r) = Numer(r) * Denom(l)
    ELSE IF l.t # r.t THEN FALSE
    ELSE l = r

\* a zero divisor answered with a value instead of the exception
true_div_Sentinel(l, r) ==
    [ok |-> TRUE,
     v |-> IF Numer(r) = 0 THEN Num(0)
           ELSE Fraction(Numer(l) * Denom(r), Denom(l) * Numer(r))]

\* l / r on two numbers: the host raises ZeroDivisionError for a zero divisor
true_div(l, r) ==
    IF Numer(r) = 0 THEN [ok |-> FALSE, e |-> "ZeroDivisionError"]
    ELSE [ok |-> TRUE, v |-> Fraction(Numer(l) * Denom(r), Denom(l) * Numer(r))]

\* The result of the operator chain of eval_BinaryOpNode on the operand
\* values: [ok |-> TRUE, v |-> value] or [ok |-> FALSE, e |-> exception kind].
\* The result of + - * is an int when both operands are, a float otherwise;
\* the result of / is always a float.
BinaryOp(operator, l, r) ==
    LET num == IsNumeric(l) /\ IsNumeric(r)
        a == Numer(l)
        b == Denom(l)
        c == Numer(r)
        d == Denom(r)
        ints == l.t # "float" /\ r.t # "float"
        number(p, q) == IF ints THEN Num(p) ELSE Fraction(p, q)
        tyerr == [ok |-> FALSE, e |-> "TypeError"]
    IN  CASE operator = "+" ->
                IF num THEN [ok |-> TRUE, v |-> number(a * d + c * b, b * d)] ELSE tyerr
          [] operator = "-" ->
                IF num THEN [ok |-> TRUE, v |-> number(a * d - c * b, b * d)] ELSE tyerr
          [] operator = "*" ->
                IF num THEN [ok |-> TRUE, v |-> number(a * c, b * d)] ELSE tyerr
          [] operator = "/" ->
                IF num THEN true_div(l, r) ELSE tyerr
          [] operator = "==" -> [ok |-> TRUE, v |-> Bool(ValEq(l, r))]
          [] operator = "!=" -> [ok |-> TRUE, v |-> Bool(~ValEq(l, r))]
          [] operator = "<"  -> IF num THEN [ok |-> TRUE, v |-> Bool(a * d < c * b)] ELSE tyerr
          [] operator = "<=" -> IF num THEN [ok |-> TRUE, v |-> Bool(a * d <= c * b)] ELSE tyerr
          [] operator = ">"  -> IF num THEN [ok |-> TRUE, v |-> Bool(a * d > c * b)] ELSE tyerr
          [] operator = ">=" -> IF num THEN [ok |-> TRUE, v |-> Bool(a * d >= c * b)] ELSE tyerr
          [] OTHER -> [ok |-> FALSE, e |-> "RuntimeError"]

\* eval_BinaryOpNode, second half: the operator applied to l and r
eval_BinaryOpNode_apply ==
    /\ Interpreting
    /\ HeadIs("binop_apply")
    /\ LET l == vals[Len(vals) - 1]
           r == vals[Len(vals)]
           res == BinaryOp(Head(kont).operator, l, r)
       IN  IF res.ok
           THEN /\ vals' = Append(SubSeq(vals, 1, Len(vals) - 2), res.v)
                /\ kont' = Tail(kont)
                /\ UNCHANGED <<status, error, env_stack, returning, retval, output>>
           ELSE Fail([kind |-> res.e])
    /\ UNCHANGED <<mode, tokens, backend, rc, program, scopes>>

\* eval_CallNode, lines 86-97: resolve the function value, then evaluate the
\* arguments.  The parser builds every call target as an IdentifierNode.
eval_CallNode ==
    /\ Interpreting
    /\ HeadNode("CallNode")
    /\ LET n == Head(kont).node
           f == FindFrame(env_stack, n.func.name)
           fn == IF f = 0 THEN NoneV ELSE env_stack[f][n.func.name]
       IN  IF fn.t = "none"
           THEN Fail([kind |-> "NameError", name |-> n.func.name, lineno |-> n.lineno])
           ELSE /\ kont' = NodeItems(n.args) \o <<CallApply(fn, Len(n.args))>> \o Tail(kont)
                /\ UNCHANGED <<status, error, vals, env_stack, returning, retval, output>>
    /\ UNCHANGED <<mode, tokens, backend, rc, program, scopes>>

\* eval_CallNode, lines 98-111: builtin call, or bind the parameters, push
\* the new frame and enter the try block
eval_CallNode_apply ==
    /\ Interpreting
    /\ HeadIs("call_apply")
    /\ LET it == Head(kont)
           fn == it.fn
           args == SubSeq(vals, Len(vals) - it.nargs + 1, Len(vals))
           rest == SubSeq(vals, 1, Len(vals) - it.nargs)
       IN  CASE fn.t = "builtin" ->
                  /\ output' = Append(output, args)
                  /\ vals' = Append(rest, NoneV)
                  /\ kont' = Tail(kont)
                  /\ UNCHANGED <<status, error, env_stack, returning, retval>>
             [] fn.t = "fn" ->
                  /\ env_stack' = push_env(env_stack, NewEnv(fn, args))
                  /\ vals' = rest
                  /\ kont' = <<Body(fn.body), CallTry(Len(env_stack), current_env(env_stack))>>
                                \o Tail(kont)
                  /\ UNCHANGED <<status, error, returning, retval, output>>
             [] OTHER -> Fail([kind |-> "RuntimeError"])
    /\ UNCHANGED <<mode, tokens, backend, rc, program, scopes>>

\* eval_CallNode, lines 115-116: the body ended without a return
eval_CallNode_end ==
    /\ Interpreting
    /\ HeadIs("call_try")
    /\ env_stack' = pop_env(env_stack)
    /\ vals' = Append(vals, NoneV)
    /\ kont' = Tail(kont)
    /\ UNCHANGED <<mode, tokens, backend, rc, program, status, error, returning, retval, output, scopes>>

\* eval_CallNode, lines 112-114: except ReturnException as re
eval_CallNode_except ==
    /\ mode \in {"interpret", "run_file"} /\ status = "running" /\ returning
    /\ HeadIs("call_try")
    /\ env_stack' = pop_env(env_stack)
    /\ vals' = Append(vals, retval)
    /\ returning' = FALSE
    /\ retval' = NoneV
    /\ kont' = Tail(kont)
    /\ UNCHANGED <<mode, tokens, backend, rc, program, status, error, output, scopes>>

eval_FunctionDefNode ==
    /\ Interpreting
    /\ HeadNode("FunctionDefNode")
    /\ LET n == Head(kont).node
           func == FunctionValue(n.params, n.body, CaptureEnv(env_stack))
       IN  env_stack' = AssignInStack(env_stack, n.name, func)
    /\ kont' = Tail(kont)
    /\ UNCHANGED <<mode, tokens, backend, rc, program, status, error, vals, returning, retval, output, scopes>>

\* eval_ReturnNode: val = eval_expr(node.value) if node.value is not None else None
eval_ReturnNode ==
    /\ Interpreting
    /\ HeadNode("ReturnNode")
    /\ LET n == Head(kont).node IN
         IF n.value.kind = "NoneType"
         THEN /\ kont' = <<Raise>> \o Tail(kont)
              /\ vals' = Append(vals, NoneV)
         ELSE /\ kont' = <<Node(n.value), Raise>> \o Tail(kont)
              /\ vals' = vals
    /\ UNCHANGED <<mode, tokens, backend, rc, program, status, error, env_stack, returning, retval, output, scopes>>

\* eval_ReturnNode: raise ReturnException(val)
eval_ReturnNode_raise ==
    /\ Interpreting
    /\ HeadIs("raise")
    /\ returning' = TRUE
    /\ retval' = vals[Len(vals)]
    /\ vals' = SubSeq(vals, 1, Len(vals) - 1)
    /\ kont' = Tail(kont)
    /\ UNCHANGED <<mode, tokens, backend, rc, program, status, error, env_stack, output, scopes>>

\* The ReturnException leaves a handler that has no try around it: the rest
\* of that handler (its pop_env included) is not executed.  With no
\* eval_CallNode left to catch it, it ends Interpreter.run.
Propagate ==
    /\ mode \in {"interpret", "run_file"} /\ status = "running" /\ returning
    /\ ~HeadIs("call_try")
    /\ IF kont = <<>>
       THEN /\ status' = "failed"
            /\ error' = [kind |-> "ReturnException"]
            /\ kont' = kont
       ELSE /\ kont' = Tail(kont)
            /\ UNCHANGED <<status, error>>
    /\ UNCHANGED <<mode, tokens, backend, rc, program, vals, env_stack, returning, retval, output, scopes>>

\* eval_IfNode: cond = self.eval_expr(node.condition)
eval_IfNode ==
    /\ Interpreting
    /\ HeadNode("IfNode")
    /\ LET n == Head(kont).node IN
         kont' = <<Node(n.condition), IfTest(n, 0)>> \o Tail(kont)
    /\ UNCHANGED <<mode, tokens, backend, rc, program, status, error, vals, env_stack, returning, retval, output, scopes>>

\* the conditions after a true one tested, and their branches run, as well
eval_IfNode_test_FallThrough ==
    /\ Interpreting
    /\ HeadIs("if_test")
    /\ LET it == Head(kont)
           n == it.node
           cond == vals[Len(vals)]
           body == IF it.k = 0 THEN n.then_body ELSE n.elifs[it.k].body
           rest == IF it.k < Len(n.elifs)
                   THEN <<Node(n.elifs[it.k + 1].cond), IfTest(n, it.k + 1)>>
                   ELSE <<>>
       IN  /\ vals' = SubSeq(vals, 1, Len(vals) - 1)
           /\ IF Truthy(cond)
              THEN /\ env_stack' = push_env(env_stack, BlockEnv(env_stack))
                   /\ kont' = <<Body(body), PopEnv>> \o rest \o Tail(kont)
              ELSE IF it.k < Len(n.elifs)
              THEN /\ kont' = rest \o Tail(kont)
                   /\ env_stack' = env_stack
              ELSE IF n.else_body # <<>>
              THEN /\ env_stack' = push_env(env_stack, BlockEnv(env_stack))
                   /\ kont' = <<Body(n.else_body), PopEnv>> \o Tail(kont)
              ELSE /\ kont' = Tail(kont)
                   /\ env_stack' = env_stack
    /\ UNCHANGED <<mode, tokens, backend, rc, program, status, error, returning, retval, output, scopes>>

\* eval_IfNode: the test of the condition of the then branch (k = 0) or of
\* elif k; a true condition pushes a copy of the current frame and runs the
\* branch, a false one goes on to the next elif or to the else body
eval_IfNode_test ==
    /\ Interpreting
    /\ HeadIs("if_test")
    /\ LET it == Head(kont)
           n == it.node
           cond == vals[Len(vals)]
           body == IF it.k = 0 THEN n.then_body ELSE n.elifs[it.k].body
       IN  /\ vals' = SubSeq(vals, 1, Len(vals) - 1)
           /\ IF Truthy(cond)
              THEN /\ env_stack' = push_env(env_stack, BlockEnv(env_stack))
                   /\ kont' = <<Body(body), PopEnv>> \o Tail(kont)
              ELSE IF it.k < Len(n.elifs)
              THEN /\ kont' = <<Node(n.elifs[it.k + 1].cond), IfTest(n, it.k + 1)>> \o Tail(kont)
                   /\ env_stack' = env_stack
              ELSE IF n.else_body # <<>>
              THEN /\ env_stack' = push_env(env_stack, BlockEnv(env_stack))
                   /\ kont' = <<Body(n.else_body), PopEnv>> \o Tail(kont)
              ELSE /\ kont' = Tail(kont)
                   /\ env_stack' = env_stack
    /\ UNCHANGED <<mode, tokens, backend, rc, program, status, error, returning, retval, output, scopes>>

\* self.pop_env() after the body of a branch or of a loop iteration
BlockPopEnv ==
    /\ Interpreting
    /\ HeadIs("pop_env")
    /\ env_stack' = pop_env(env_stack)
    /\ kont' = Tail(kont)
    /\ UNCHANGED <<mode, tokens, backend, rc, program, status, error, vals, returning, retval, output, scopes>>

\* eval_WhileNode: while self.eval_expr(node.condition)
eval_WhileNode ==
    /\ Interpreting
    /\ HeadNode("WhileNode")
    /\ LET n == Head(kont).node IN
         kont' = <<Node(n.condition), WhileTest(n)>> \o Tail(kont)
    /\ UNCHANGED <<mode, tokens, backend, rc, program, status, error, vals, env_stack, returning, retval, output, scopes>>

\* eval_WhileNode: a true condition pushes a copy of the current frame, runs
\* the body, pops and evaluates the condition again
eval_WhileNode_test ==
    /\ Interpreting
    /\ HeadIs("while_test")
    /\ LET n == Head(kont).node
           cond == vals[Len(vals)]
       IN  /\ vals' = SubSeq(vals, 1, Len(vals) - 1)
           /\ IF Truthy(cond)
              THEN /\ env_stack' = push_env(env_stack, BlockEnv(env_stack))
                   /\ kont' = <<Body(n.body), PopEnv, Node(n)>> \o Tail(kont)
              ELSE /\ kont' = Tail(kont)
                   /\ env_stack' = env_stack
    /\ UNCHANGED <<mode, tokens, backend, rc, program, status, error, returning, retval, output, scopes>>

\* Interpreter.run returns
RunEnd ==
    /\ Interpreting
    /\ kont = <<>>
    /\ status' = "done"
    /\ UNCHANGED <<mode, tokens, backend, rc, program, error, kont, vals, env_stack, returning, retval, output, scopes>>

InterpreterStep ==
    \/ ForBody
    \/ DiscardValue
    \/ eval_AssignmentNode
    \/ eval_AssignmentNode_bind
    \/ eval_NumberNode
    \/ eval_IdentifierNode
    \/ eval_BinaryOpNode
    \/ eval_BinaryOpNode_apply
    \/ eval_CallNode
    \/ eval_CallNode_apply
    \/ eval_CallNode_end
    \/ eval_CallNode_except
    \/ eval_FunctionDefNode
    \/ eval_ReturnNode
    \/ eval_ReturnNode_raise
    \/ Propagate
    \/ eval_IfNode
    \/ eval_IfNode_test
    \/ BlockPopEnv
    \/ eval_WhileNode
    \/ eval_WhileNode_test
    \/ RunEnd

(***************************************************************************)
(* Scope checker (semantic.py).                                            *)
(***************************************************************************)
\* SymbolTable.enter
enter(scps) == Append(scps, {})

\* the function scope left on the stack
exit_Keep(scps) == scps

\* SymbolTable.exit
exit(scps) == SubSeq(scps, 1, Len(scps) - 1)

\* the name declared in the program scope instead of the current one
insert_Outermost(scps, name) == [scps EXCEPT ![1] = @ \cup {name}]

\* SymbolTable.insert: self.scopes[-1][name] = True
insert(scps, name) == [scps EXCEPT ![Len(scps)] = @ \cup {name}]

\* SymbolTable.lookup
lookup(scps, name) == \E i \in 1..Len(scps) : name \in scps[i]

RECURSIVE insert_all(_, _)
\* for p in node.params: self.symtab.insert(p)
insert_all(scps, names) ==
    IF names = <<>> THEN scps
    ELSE insert_all(insert(scps, Head(names)), Tail(names))

\* control is inside SemanticAnalyzer.analyze, called directly or by run_file
Checking == mode \in {"analyze", "run_file"} /\ status = "checking"

\* the fields of the interpreter, which the checker does not touch
interp_vars == <<vals, env_stack, returning, retval, output>>

visit_Program ==
    /\ Checking
    /\ HeadNode("Program")
    /\ kont' = NodeItems(Head(kont).node.body) \o Tail(kont)
    /\ UNCHANGED <<mode, tokens, backend, rc, program, status, error, scopes, interp_vars>>

\* visit_AssignmentNode: the right-hand side first, then the declaration
visit_AssignmentNode ==
    /\ Checking
    /\ HeadNode("AssignmentNode")
    /\ LET n == Head(kont).node IN
         kont' = <<Node(n.value), SymtabInsert(n.name)>> \o Tail(kont)
    /\ UNCHANGED <<mode, tokens, backend, rc, program, status, error, scopes, interp_vars>>

visit_AssignmentNode_insert ==
    /\ Checking
    /\ HeadIs("symtab_insert")
    /\ scopes' = insert(scopes, Head(kont).name)
    /\ kont' = Tail(kont)
    /\ UNCHANGED <<mode, tokens, backend, rc, program, status, error, interp_vars>>

\* visit_IdentifierNode; the CompilerError it raises is caught by analyze,
\* which returns False
visit_IdentifierNode ==
    /\ Checking
    /\ HeadNode("IdentifierNode")
    /\ LET n == Head(kont).node IN
         IF ~lookup(scopes, n.name)
         THEN /\ status' = "rejected"
              /\ error' = [kind |-> "CompilerError", name |-> n.name, lineno |-> n.lineno]
              /\ kont' = <<>>
         ELSE /\ kont' = Tail(kont)
              /\ UNCHANGED <<status, error>>
    /\ UNCHANGED <<mode, tokens, backend, rc, program, scopes, interp_vars>>

\* visit_FunctionDefNode up to the visit of the body
visit_FunctionDefNode ==
    /\ Checking
    /\ HeadNode("FunctionDefNode")
    /\ LET n == Head(kont).node
           registered == insert(scopes, n.name)
       IN  /\ scopes' = insert_all(enter(registered), n.params)
           /\ kont' = NodeItems(n.body) \o <<SymtabExit(registered)>> \o Tail(kont)
    /\ UNCHANGED <<mode, tokens, backend, rc, program, status, error, interp_vars>>

\* visit_FunctionDefNode: self.symtab.exit()
visit_FunctionDefNode_exit ==
    /\ Checking
    /\ HeadIs("symtab_exit")
    /\ scopes' = exit(scopes)
    /\ kont' = Tail(kont)
    /\ UNCHANGED <<mode, tokens, backend, rc, program, status, error, interp_vars>>

\* the call target visited like any other identifier
CallVisits_Target(n) == <<n.func>> \o n.args

\* the nodes visit_CallNode visits: the arguments; the target only when it
\* is not an IdentifierNode
CallVisits(n) ==
    IF n.func.kind = "IdentifierNode" THEN n.args ELSE <<n.func>> \o n.args

visit_CallNode ==
    /\ Checking
    /\ HeadNode("CallNode")
    /\ kont' = NodeItems(CallVisits(Head(kont).node)) \o Tail(kont)
    /\ UNCHANGED <<mode, tokens, backend, rc, program, status, error, scopes, interp_vars>>

RECURSIVE ElifVisits(_)
\* for cond, body in node.elifs: visit(cond); for s in body: visit(s)
ElifVisits(elifs) ==
    IF elifs = <<>> THEN <<>>
    ELSE <<Head(elifs).cond>> \o Head(elifs).body \o ElifVisits(Tail(elifs))

\* visit_IfNode: no scope is entered
visit_IfNode ==
    /\ Checking
    /\ HeadNode("IfNode")
    /\ LET n == Head(kont).node IN
         kont' = NodeItems(<<n.condition>> \o n.then_body \o ElifVisits(n.elifs) \o n.else_body)
                    \o Tail(kont)
    /\ UNCHANGED <<mode, tokens, backend, rc, program, status, error, scopes, interp_vars>>

\* visit_WhileNode: no scope is entered
visit_WhileNode ==
    /\ Checking
    /\ HeadNode("WhileNode")
    /\ LET n == Head(kont).node IN
         kont' = NodeItems(<<n.condition>> \o n.body) \o Tail(kont)
    /\ UNCHANGED <<mode, tokens, backend, rc, program, status, error, scopes, interp_vars>>

visit_ReturnNode ==
    /\ Checking
    /\ HeadNode("ReturnNode")
    /\ LET n == Head(kont).node IN
         kont' = IF n.value.kind = "NoneType" THEN Tail(kont)
                 ELSE <<Node(n.value)>> \o Tail(kont)
    /\ UNCHANGED <<mode, tokens, backend, rc, program, status, error, scopes, interp_vars>>

visit_BinaryOpNode ==
    /\ Checking
    /\ HeadNode("BinaryOpNode")
    /\ LET n == Head(kont).node IN
         kont' = <<Node(n.left), Node(n.right)>> \o Tail(kont)
    /\ UNCHANGED <<mode, tokens, backend, rc, program, status, error, scopes, interp_vars>>

visit_NumberNode ==
    /\ Checking
    /\ HeadNode("NumberNode")
    /\ kont' = Tail(kont)
    /\ UNCHANGED <<mode, tokens, backend, rc, program, status, error, scopes, interp_vars>>

\* analyze: self.visit(node) returned; return True
analyze_end ==
    /\ Checking
    /\ kont = <<>>
    /\ status' = "accepted"
    /\ UNCHANGED <<mode, tokens, backend, rc, program, error, kont, scopes, interp_vars>>

CheckerStep ==
    \/ visit_Program
    \/ visit_AssignmentNode
    \/ visit_AssignmentNode_insert
    \/ visit_IdentifierNode
    \/ visit_FunctionDefNode
    \/ visit_FunctionDefNode_exit
    \/ visit_CallNode
    \/ visit_IfNode
    \/ visit_WhileNode
    \/ visit_ReturnNode
    \/ visit_BinaryOpNode
    \/ visit_NumberNode
    \/ analyze_end

(***************************************************************************)
(* Parser (parser.py).  Parser.pos counts from 0 in the source and from 1  *)
(* here.  Each method is an operator from the token list and the position  *)
(* of Parser.current to its result: Parsed(node, pos), what the method     *)
(* returns and the position reached, or ParserError when the method        *)
(* raises.  The token alphabet has no STRING token.                        *)
(***************************************************************************)
\* lexer.py, Token (col is not modelled)
Token(type, value, lineno) == [type |-> type, value |-> value, lineno |-> lineno]

\* Token("EOF", "", 0, 0)
EOFToken == Token("EOF", "", 0)

\* Parser.current when Parser.pos is pos
Current(toks, pos) == IF pos <= Len(toks) THEN toks[pos] ELSE EOFToken

\* self.tokens[self.pos+1] if self.pos+1 < len(self.tokens) else None; no
\* test made on the peeked token holds of the EOF token
Peek(toks, pos) == IF pos + 1 <= Len(toks) THEN toks[pos + 1] ELSE EOFToken

Parsed(node, pos) == [ok |-> TRUE, node |-> node, pos |-> pos]
ParserError == [ok |-> FALSE]

\* the statements K after a call that returned r, skipped when the call
\* raised; the call is made once and its result v is what K goes on with
Then(r, K(_)) == CHOOSE res \in {IF v.ok THEN K(v) ELSE ParserError : v \in {r}} : TRUE

\* val=None of accept and expect
AnyValue == ""

\* the test of Parser.accept
accepts(toks, pos, typ, val) ==
    LET tok == Current(toks, pos)
    IN  tok.type = typ /\ (val = AnyValue \/ tok.value = val)

\* Parser.expect: the token and the position after it, or ParserError
expect(toks, pos, typ, val) ==
    IF accepts(toks, pos, typ, val) THEN Parsed(Current(toks, pos), pos + 1)
    ELSE ParserError

\* int(tok.value) on the decimal literals of the token alphabet
int_value ==
    [s \in {"0", "1", "2", "3", "4", "5", "6", "7", "8", "9"} |->
        CASE s = "0" -> 0 [] s = "1" -> 1 [] s = "2" -> 2 [] s = "3" -> 3
          [] s = "4" -> 4 [] s = "5" -> 5 [] s = "6" -> 6 [] s = "7" -> 7
          [] s = "8" -> 8 [] s = "9" -> 9]

RECURSIVE statement(_, _), block_loop(_, _, _), elif_loop(_, _, _), param_loop(_, _, _)
RECURSIVE comparison(_, _), comparison_loop(_, _, _), arith(_, _), arith_loop(_, _, _)
RECURSIVE term(_, _), term_loop(_, _, _), factor(_, _), call(_, _), arg_loop(_, _, _)
RECURSIVE parse_loop(_, _, _)

\* expression -> comparison
expression(toks, pos) == comparison(toks, pos)

\* the while loop of comparison: node is the tree built so far
comparison_loop(toks, pos, node) ==
    LET tok == Current(toks, pos)
    IN  IF tok.type = "OP" /\ tok.value \in {"==", "!=", "<", "<=", ">", ">="}
        THEN Then(arith(toks, pos + 1), LAMBDA right :
                comparison_loop(toks, right.pos,
                                BinaryOpNode(node, tok.value, right.node)))
        ELSE Parsed(node, pos)

comparison(toks, pos) ==
    Then(arith(toks, pos), LAMBDA left : comparison_loop(toks, left.pos, left.node))

\* the while loop of arith
arith_loop(toks, pos, node) ==
    LET tok == Current(toks, pos)
    IN  IF tok.type = "OP" /\ tok.value \in {"+", "-"}
        THEN Then(term(toks, pos + 1), LAMBDA right :
                arith_loop(toks, right.pos, BinaryOpNode(node, tok.value, right.node)))
        ELSE Parsed(node, pos)

arith(toks, pos) ==
    Then(term(toks, pos), LAMBDA left : arith_loop(toks, left.pos, left.node))

\* + and - taken at the level of * and /
term_loop_Flat(toks, pos, node) ==
    LET tok == Current(toks, pos)
    IN  IF tok.type = "OP" /\ tok.value \in {"*", "/", "+", "-"}
        THEN Then(factor(toks, pos + 1), LAMBDA right :
                term_loop(toks, right.pos, BinaryOpNode(node, tok.value, right.node)))
        ELSE Parsed(node, pos)

\* the while loop of term
term_loop(toks, pos, node) ==
    LET tok == Current(toks, pos)
    IN  IF tok.type = "OP" /\ tok.value \in {"*", "/"}
        THEN Then(factor(toks, pos + 1), LAMBDA right :
                term_loop(toks, right.pos, BinaryOpNode(node, tok.value, right.node)))
        ELSE Parsed(node, pos)

term(toks, pos) ==
    Then(factor(toks, pos), LAMBDA left : term_loop(toks, left.pos, left.node))

factor(toks, pos) ==
    LET tok == Current(toks, pos)
        next_tok == Peek(toks, pos)
    IN  CASE tok.type = "NUMBER" -> Parsed(NumberNode(int_value[tok.value]), pos + 1)
          [] tok.type = "NAME" ->
                IF next_tok.type = "OP" /\ next_tok.value = "("
                THEN call(toks, pos)
                ELSE Parsed(IdentifierNode(tok.value, tok.lineno), pos + 1)
          [] tok.type = "OP" /\ tok.value = "(" ->
                Then(expression(toks, pos + 1), LAMBDA node :
                Then(expect(toks, node.pos, "OP", ")"), LAMBDA close :
                    Parsed(node.node, close.pos)))
          [] OTHER -> ParserError

\* while self.accept("OP", ","): args.append(self.expression())
arg_loop(toks, pos, args) ==
    IF accepts(toks, pos, "OP", ",")
    THEN Then(expression(toks, pos + 1), LAMBDA arg :
            arg_loop(toks, arg.pos, Append(args, arg.node)))
    ELSE Parsed(args, pos)

\* the argument list of call, up to the closing parenthesis
call_args(toks, pos) ==
    IF accepts(toks, pos, "OP", ")") THEN Parsed(<<>>, pos)
    ELSE Then(expression(toks, pos), LAMBDA first :
            arg_loop(toks, first.pos, <<first.node>>))

call(toks, pos) ==
    Then(expect(toks, pos, "NAME", AnyValue), LAMBDA name_tok :
    Then(expect(toks, name_tok.pos, "OP", "("), LAMBDA open :
    Then(call_args(toks, open.pos), LAMBDA args :
    Then(expect(toks, args.pos, "OP", ")"), LAMBDA close :
        Parsed(CallNode(IdentifierNode(name_tok.node.value, name_tok.node.lineno),
                        args.node, name_tok.node.lineno),
               close.pos)))))

\* the while loop of block, then self.expect("DEDENT")
block_loop(toks, pos, stmts) ==
    LET tok == Current(toks, pos)
    IN  IF tok.type = "DEDENT" THEN Parsed(stmts, pos + 1)
        ELSE IF tok.type = "EOF" THEN ParserError
        ELSE IF tok.type = "NEWLINE" THEN block_loop(toks, pos + 1, stmts)
        ELSE Then(statement(toks, pos), LAMBDA stmt :
                block_loop(toks, stmt.pos, Append(stmts, stmt.node)))

block(toks, pos) == block_loop(toks, pos, <<>>)

\* self.expect("OP", ":"); self.expect("NEWLINE"); self.expect("INDENT");
\* self.block()
colon_block(toks, pos) ==
    Then(expect(toks, pos, "OP", ":"), LAMBDA colon :
    Then(expect(toks, colon.pos, "NEWLINE", AnyValue), LAMBDA newline :
    Then(expect(toks, newline.pos, "INDENT", AnyValue), LAMBDA indent :
        block(toks, indent.pos))))

\* the elif loop of if_stmt
elif_loop(toks, pos, elifs) ==
    IF accepts(toks, pos, "NAME", "elif")
    THEN Then(expression(toks, pos + 1), LAMBDA econd :
         Then(colon_block(toks, econd.pos), LAMBDA ebody :
            elif_loop(toks, ebody.pos,
                      Append(elifs, [cond |-> econd.node, body |-> ebody.node]))))
    ELSE Parsed(elifs, pos)

\* the else part of if_stmt; an absent else (else_body = None) is the empty body
else_part(toks, pos) ==
    IF accepts(toks, pos, "NAME", "else") THEN colon_block(toks, pos + 1)
    ELSE Parsed(<<>>, pos)

if_stmt(toks, pos) ==
    Then(expect(toks, pos, "NAME", "if"), LAMBDA if_tok :
    Then(expression(toks, if_tok.pos), LAMBDA cond :
    Then(colon_block(toks, cond.pos), LAMBDA then_body :
    Then(elif_loop(toks, then_body.pos, <<>>), LAMBDA elifs :
    Then(else_part(toks, elifs.pos), LAMBDA else_body :
        Parsed(IfNode(cond.node, then_body.node, elifs.node, else_body.node),
               else_body.pos))))))

while_stmt(toks, pos) ==
    Then(expect(toks, pos, "NAME", "while"), LAMBDA while_tok :
    Then(expression(toks, while_tok.pos), LAMBDA cond :
    Then(colon_block(toks, cond.pos), LAMBDA body :
        Parsed(WhileNode(cond.node, body.node), body.pos))))

\* while self.accept("OP", ","): p = self.expect("NAME"); params.append(p.value)
param_loop(toks, pos, params) ==
    IF accepts(toks, pos, "OP", ",")
    THEN Then(expect(toks, pos + 1, "NAME", AnyValue), LAMBDA p :
            param_loop(toks, p.pos, Append(params, p.node.value)))
    ELSE Parsed(params, pos)

\* the parameter list of function_def, up to the closing parenthesis
param_list(toks, pos) ==
    IF accepts(toks, pos, "OP", ")") THEN Parsed(<<>>, pos)
    ELSE Then(expect(toks, pos, "NAME", AnyValue), LAMBDA p :
            param_loop(toks, p.pos, <<p.node.value>>))

function_def(toks, pos) ==
    Then(expect(toks, pos, "NAME", "def"), LAMBDA def_tok :
    Then(expect(toks, def_tok.pos, "NAME", AnyValue), LAMBDA name_tok :
    Then(expect(toks, name_tok.pos, "OP", "("), LAMBDA open :
    Then(param_list(toks, open.pos), LAMBDA params :
    Then(expect(toks, params.pos, "OP", ")"), LAMBDA close :
    Then(colon_block(toks, close.pos), LAMBDA body :
        Parsed(FunctionDefNode(name_tok.node.value, params.node, body.node),
               body.pos)))))))

\* if self.current.type == "NEWLINE": self.advance()
skip_newline(toks, pos) == IF Current(toks, pos).type = "NEWLINE" THEN pos + 1 ELSE pos

\* the value of return_stmt: None before a NEWLINE
return_value(toks, pos) ==
    IF Current(toks, pos).type # "NEWLINE" THEN expression(toks, pos)
    ELSE Parsed(NoneNode, pos)

return_stmt(toks, pos) ==
    Then(expect(toks, pos, "NAME", "return"), LAMBDA ret_tok :
    Then(return_value(toks, ret_tok.pos), LAMBDA val :
        Parsed(ReturnNode(val.node), skip_newline(toks, val.pos))))

assignment(toks, pos) ==
    Then(expect(toks, pos, "NAME", AnyValue), LAMBDA name_tok :
    Then(expect(toks, name_tok.pos, "OP", "="), LAMBDA eq :
    Then(expression(toks, eq.pos), LAMBDA val :
        Parsed(AssignmentNode(name_tok.node.value, val.node),
               skip_newline(toks, val.pos)))))

statement(toks, pos) ==
    LET tok == Current(toks, pos)
        next_tok == Peek(toks, pos)
    IN  IF tok.type = "NAME" /\ tok.value = "if" THEN if_stmt(toks, pos)
        ELSE IF tok.type = "NAME" /\ tok.value = "while" THEN while_stmt(toks, pos)
        ELSE IF tok.type = "NAME" /\ tok.value = "def" THEN function_def(toks, pos)
        ELSE IF tok.type = "NAME" /\ tok.value = "return" THEN return_stmt(toks, pos)
        ELSE IF tok.type = "NAME" /\ next_tok.type = "OP" /\ next_tok.value = "="
        THEN assignment(toks, pos)
        ELSE Then(expression(toks, pos), LAMBDA expr :
                Parsed(expr.node, skip_newline(toks, expr.pos)))

\* the while loop of Parser.parse
parse_loop(toks, pos, stmts) ==
    LET tok == Current(toks, pos)
    IN  IF tok.type = "EOF" THEN Parsed(Program(stmts), pos)
        ELSE IF tok.type = "NEWLINE" THEN parse_loop(toks, pos + 1, stmts)
        ELSE Then(statement(toks, pos), LAMBDA stmt :
                parse_loop(toks, stmt.pos, Append(stmts, stmt.node)))

\* parse(source_text), on the tokens of source_text
parse(toks) == parse_loop(toks, 1, <<>>)

(***************************************************************************)
(* Driver (cli.py, run_file).  status tells which call run_file is in.     *)
(***************************************************************************)
\* run_file has not returned and is at the point named by st
RunFile(st) == mode = "run_file" /\ rc = <<>> /\ status = st

\* lines 30-37: root = parse(source_text); on ParserError return 1;
\* analyzer = SemanticAnalyzer(); analyzer.analyze(root) is entered
run_file_parse ==
    /\ RunFile("parsing")
    /\ LET r == parse(tokens) IN
         IF r.ok
         THEN /\ program' = r.node
              /\ status' = "checking"
              /\ kont' = <<Node(r.node)>>
              /\ scopes' = <<{"print"}>>
              /\ UNCHANGED <<error, rc>>
         ELSE /\ status' = "parse_error"
              /\ error' = [kind |-> "ParserError"]
              /\ rc' = <<1>>
              /\ UNCHANGED <<program, kont, scopes>>
    /\ UNCHANGED <<mode, tokens, backend, interp_vars>>

\* lines 45-47: if not ok: return 1
run_file_rejected ==
    /\ RunFile("rejected")
    /\ rc' = <<1>>
    /\ UNCHANGED <<mode, tokens, backend, program, status, error, kont, scopes, interp_vars>>

\* the interpreter entered whatever the checker answered
run_file_interpret_Unchecked ==
    /\ mode = "run_file" /\ rc = <<>> /\ status \in {"accepted", "rejected"}
    /\ backend = "interpret"
    /\ status' = "running"
    /\ kont' = <<Body(program.body)>>
    /\ env_stack' = <<global_env>>
    /\ UNCHANGED <<mode, tokens, backend, rc, program, error, vals, returning, retval, output, scopes>>

\* lines 49-52: interp = Interpreter(); interp.run(root) is entered
run_file_interpret ==
    /\ RunFile("accepted")
    /\ backend = "interpret"
    /\ status' = "running"
    /\ kont' = <<Body(program.body)>>
    /\ env_stack' = <<global_env>>
    /\ UNCHANGED <<mode, tokens, backend, rc, program, error, vals, returning, retval, output, scopes>>

\* lines 53-57: interp.run(root) returned: return 0; it raised: return 1
run_file_interpreted ==
    /\ mode = "run_file" /\ rc = <<>> /\ backend = "interpret"
    /\ status \in {"done", "failed"}
    /\ rc' = IF status = "done" THEN <<0>> ELSE <<1>>
    /\ UNCHANGED <<mode, tokens, backend, program, status, error, kont, scopes, interp_vars>>

\* lines 59-76: codegen.generate(root), compile, exec(compiled, ...) is entered
run_file_transpile ==
    /\ RunFile("accepted")
    /\ backend # "interpret"
    /\ status' = "executing"
    /\ UNCHANGED <<mode, tokens, backend, rc, program, error, kont, scopes, interp_vars>>

\* lines 76-88: the generated module is executed by the host; exec returned
\* (return 0) or raised (return 1)
run_file_executed ==
    /\ RunFile("executing")
    /\ \E raised \in BOOLEAN :
         /\ status' = IF raised THEN "failed" ELSE "done"
         /\ rc' = IF raised THEN <<1>> ELSE <<0>>
    /\ UNCHANGED <<mode, tokens, backend, program, error, kont, scopes, interp_vars>>

DriverStep ==
    \/ run_file_parse
    \/ run_file_rejected
    \/ run_file_interpret
    \/ run_file_interpreted
    \/ run_file_transpile
    \/ run_file_executed

(***************************************************************************)
(* The programs handed to the entry points.  The repository's examples     *)
(* (run_examples.py, EXAMPLES) and families around them; every tree is one *)
(* the parser can build.  The first comment of each gives the source text. *)
(***************************************************************************)
Lits == 1..MaxLit

PrintCall(arg, lineno) == CallNode(IdentifierNode("print", lineno), <<arg>>, lineno)

\* examples/variables_scope.mpy:
\*   1 x = a
\*   2 print(x)
\*   3 if x > 0:            | if x < 0: / elif x > 0:     | if x < 0: / else:
\*   4     x = b
\*   5 print(x)
VariablesScope(a, b, branch) ==
    LET asg == <<AssignmentNode("x", NumberNode(b))>>
        pos == BinaryOpNode(IdentifierNode("x", 3), ">", NumberNode(0))
        neg == BinaryOpNode(IdentifierNode("x", 3), "<", NumberNode(0))
        skip == <<AssignmentNode("w", NumberNode(0))>>
        ifn == CASE branch = "then" -> IfNode(pos, asg, <<>>, <<>>)
                 [] branch = "elif" -> IfNode(neg, skip, <<[cond |-> pos, body |-> asg]>>, <<>>)
                 [] branch = "else" -> IfNode(neg, skip, <<>>, asg)
    IN  Program(<<AssignmentNode("x", NumberNode(a)),
                  PrintCall(IdentifierNode("x", 2), 2),
                  ifn,
                  PrintCall(IdentifierNode("x", 5), 5)>>)

VariablesScopePrograms ==
    {VariablesScope(a, b, br) : a \in Lits, b \in Lits, br \in {"then", "elif", "else"}}

\* examples/while_sum.mpy:
\*   1 i = 1
\*   2 s = 0
\*   3 while i <= n:
\*   4     s = s + i
\*   5     i = i + 1
\*   6 print(s)
WhileSum(n) ==
    Program(<<AssignmentNode("i", NumberNode(1)),
              AssignmentNode("s", NumberNode(0)),
              WhileNode(BinaryOpNode(IdentifierNode("i", 3), "<=", NumberNode(n)),
                        <<AssignmentNode("s", BinaryOpNode(IdentifierNode("s", 4), "+", IdentifierNode("i", 4))),
                          AssignmentNode("i", BinaryOpNode(IdentifierNode("i", 5), "+", NumberNode(1)))>>),
              PrintCall(IdentifierNode("s", 6), 6)>>)

WhileSumPrograms == {WhileSum(n) : n \in 0..MaxSum}

\* examples/fib_recursion.mpy:
\*   1 def fib(n):
\*   2     if n < 2:
\*   3         return n
\*   4     return fib(n - 1) + fib(n - 2)
\*   5 print(fib(k))
Fib(k) ==
    Program(<<FunctionDefNode("fib", <<"n">>,
                <<IfNode(BinaryOpNode(IdentifierNode("n", 2), "<", NumberNode(2)),
                         <<ReturnNode(IdentifierNode("n", 3))>>, <<>>, <<>>),
                  ReturnNode(BinaryOpNode(
                      CallNode(IdentifierNode("fib", 4),
                               <<BinaryOpNode(IdentifierNode("n", 4), "-", NumberNode(1))>>, 4),
                      "+",
                      CallNode(IdentifierNode("fib", 4),
                               <<BinaryOpNode(IdentifierNode("n", 4), "-", NumberNode(2))>>, 4)))>>),
              PrintCall(CallNode(IdentifierNode("fib", 5), <<NumberNode(k)>>, 5), 5)>>)

\*   1 def fact(n):
\*   2     if n <= 1:
\*   3         return 1
\*   4     return n * fact(n - 1)
\*   5 print(fact(k))
Fact(k) ==
    Program(<<FunctionDefNode("fact", <<"n">>,
                <<IfNode(BinaryOpNode(IdentifierNode("n", 2), "<=", NumberNode(1)),
                         <<ReturnNode(NumberNode(1))>>, <<>>, <<>>),
                  ReturnNode(BinaryOpNode(
                      IdentifierNode("n", 4),
                      "*",
                      CallNode(IdentifierNode("fact", 4),
                               <<BinaryOpNode(IdentifierNode("n", 4), "-", NumberNode(1))>>, 4)))>>),
              PrintCall(CallNode(IdentifierNode("fact", 5), <<NumberNode(k)>>, 5), 5)>>)

RecursionPrograms == {Fib(k) : k \in 0..MaxArg} \cup {Fact(k) : k \in 0..MaxArg}

\* examples/closure_test.mpy and variants.  how = "inside":
\*   1 def outer():
\*   2     x = a
\*   3     def inner():
\*   4         return x
\*   5     x = b
\*   6     return inner()
\*   7 print(outer())
\* how = "later": the inner function is returned and called twice from the
\* program level
\*   6     return inner
\*   7 f = outer()
\*   8 print(f())
\*   9 print(f())
\* how = "block": the inner function is defined, and called, inside an if
\* branch of outer
\*   3     if x > 0:
\*   4         def inner():
\*   5             return x
\*   6         x = b
\*   7         return inner()
\*   8 print(outer())
\* how = "param": the captured variable is the parameter of outer
\*   1 def outer(x):
\*   2     y = 0
\*   ...
\*   7 print(outer(a))
Closure(a, b, how) ==
    LET inner == FunctionDefNode("inner", <<>>, <<ReturnNode(IdentifierNode("x", 4))>>)
        first == IF how = "param" THEN AssignmentNode("y", NumberNode(0))
                                  ELSE AssignmentNode("x", NumberNode(a))
        ret   == IF how = "later"
                 THEN ReturnNode(IdentifierNode("inner", 6))
                 ELSE ReturnNode(CallNode(IdentifierNode("inner", 6), <<>>, 6))
        outer == FunctionDefNode("outer", IF how = "param" THEN <<"x">> ELSE <<>>,
                                 <<first, inner, AssignmentNode("x", NumberNode(b)), ret>>)
        inblock == FunctionDefNode("outer", <<>>,
                      <<AssignmentNode("x", NumberNode(a)),
                        IfNode(BinaryOpNode(IdentifierNode("x", 3), ">", NumberNode(0)),
                               <<FunctionDefNode("inner", <<>>, <<ReturnNode(IdentifierNode("x", 5))>>),
                                 AssignmentNode("x", NumberNode(b)),
                                 ReturnNode(CallNode(IdentifierNode("inner", 7), <<>>, 7))>>,
                               <<>>, <<>>)>>)
    IN  CASE how = "inside" ->
               Program(<<outer, PrintCall(CallNode(IdentifierNode("outer", 7), <<>>, 7), 7)>>)
          [] how = "block" ->
               Program(<<inblock, PrintCall(CallNode(IdentifierNode("outer", 8), <<>>, 8), 8)>>)
          [] how = "param" ->
               Program(<<outer, PrintCall(CallNode(IdentifierNode("outer", 7), <<NumberNode(a)>>, 7), 7)>>)
          [] how = "later" ->
               Program(<<outer,
                         AssignmentNode("f", CallNode(IdentifierNode("outer", 7), <<>>, 7)),
                         PrintCall(CallNode(IdentifierNode("f", 8), <<>>, 8), 8),
                         PrintCall(CallNode(IdentifierNode("f", 9), <<>>, 9), 9)>>)

ClosureHows == {"inside", "later", "param", "block"}
ClosurePrograms == {Closure(a, b, how) : a \in Lits, b \in Lits, how \in ClosureHows}

\* A function reading a name that is bound only in its caller.
\*   1 if 0:                (only when guarded: makes the checker accept)
\*   2     y = 0
\*   3 def g():
\*   4     return y
\*   5 def f():
\*   6     y = v
\*   7     return g()
\*   8 print(f())
CallerScope(v, guarded) ==
    LET guard == IfNode(NumberNode(0), <<AssignmentNode("y", NumberNode(0))>>, <<>>, <<>>)
        rest == <<FunctionDefNode("g", <<>>, <<ReturnNode(IdentifierNode("y", 4))>>),
                  FunctionDefNode("f", <<>>, <<AssignmentNode("y", NumberNode(v)),
                                               ReturnNode(CallNode(IdentifierNode("g", 7), <<>>, 7))>>),
                  PrintCall(CallNode(IdentifierNode("f", 8), <<>>, 8), 8)>>
    IN  Program(IF guarded THEN <<guard>> \o rest ELSE rest)

CallerScopePrograms == {CallerScope(v, g) : v \in Lits, g \in BOOLEAN}

\* The placements of the return statement in a function body.
\*   1 def h(a):
\*   2     return a     | if a:        | while a:     | if a:          | b = a | return | if a < 0:
\*   3                  |     return a |     return a |     while a:   |       |        |     b = 0
\*   4                  |              |              |         return a       |        | else:
\*   5                                                                                  |     return a
\*   6 r = h(v)
\*   7 print(r)
ReturnPlacement(v, place) ==
    LET a == IdentifierNode("a", 2)
        ra == ReturnNode(IdentifierNode("a", 3))
        body == CASE place = "top"     -> <<ReturnNode(a)>>
                  [] place = "if"      -> <<IfNode(a, <<ra>>, <<>>, <<>>)>>
                  [] place = "while"   -> <<WhileNode(a, <<ra>>)>>
                  [] place = "ifwhile" -> <<IfNode(a, <<WhileNode(IdentifierNode("a", 3),
                                                   <<ReturnNode(IdentifierNode("a", 4))>>)>>, <<>>, <<>>)>>
                  [] place = "none"    -> <<AssignmentNode("b", a)>>
                  [] place = "bare"    -> <<ReturnNode(NoneNode)>>
                  [] place = "else"    -> <<IfNode(BinaryOpNode(a, "<", NumberNode(0)),
                                                   <<AssignmentNode("b", NumberNode(0))>>, <<>>,
                                                   <<ReturnNode(IdentifierNode("a", 5))>>)>>
    IN  Program(<<FunctionDefNode("h", <<"a">>, body),
                  AssignmentNode("r", CallNode(IdentifierNode("h", 6), <<NumberNode(v)>>, 6)),
                  PrintCall(IdentifierNode("r", 7), 7)>>)

ReturnPlaces == {"top", "if", "while", "ifwhile", "none", "bare", "else"}
ReturnPlacementPrograms == {ReturnPlacement(v, pl) : v \in Lits, pl \in ReturnPlaces}

\* An assignment to a name that is already bound in an outer frame.
\* early: the outer binding precedes the definition, so that the function's
\* snapshot holds it too; otherwise it follows the definition.
\*   1 x = a               |  1 def f():
\*   2 def f():            |  2     x = b
\*   3     x = b           |  3     return x
\*   4     return x        |  4 x = a
\*   5 print(f())
\*   6 print(x)
Shadow(a, b, early) ==
    LET xa == AssignmentNode("x", NumberNode(a))
        f == FunctionDefNode("f", <<>>, <<AssignmentNode("x", NumberNode(b)),
                                          ReturnNode(IdentifierNode("x", IF early THEN 4 ELSE 3))>>)
    IN  Program((IF early THEN <<xa, f>> ELSE <<f, xa>>) \o
                <<PrintCall(CallNode(IdentifierNode("f", 5), <<>>, 5), 5),
                  PrintCall(IdentifierNode("x", 6), 6)>>)

ShadowPrograms == {Shadow(a, b, e) : a \in Lits, b \in Lits, e \in BOOLEAN}

\* examples/function_args.mpy, called with nargs of its two arguments:
\*   1 b = v
\*   2 def f(a, b):
\*   3     print(a, b)
\*   4     return b
\*   5 r = f()              | r = f(v + 1)     | r = f(v + 1, v + 2)
\*   6 print(r)
ShortCall(v, nargs) ==
    Program(<<AssignmentNode("b", NumberNode(v)),
              FunctionDefNode("f", <<"a", "b">>,
                  <<CallNode(IdentifierNode("print", 3),
                             <<IdentifierNode("a", 3), IdentifierNode("b", 3)>>, 3),
                    ReturnNode(IdentifierNode("b", 4))>>),
              AssignmentNode("r", CallNode(IdentifierNode("f", 5),
                                           [i \in 1..nargs |-> NumberNode(v + i)], 5)),
              PrintCall(IdentifierNode("r", 6), 6)>>)

ShortCallPrograms == {ShortCall(v, nargs) : v \in Lits, nargs \in 0..2}

\* One failing statement between two that do not fail.
\*   1 x = v
\*   2 y = x + print  | y = x / 0  | y = x(1)  | y = h(1)  | y = z
\*   3 print(x)
Faulty(v, fault) ==
    LET x == IdentifierNode("x", 2)
        rhs == CASE fault = "type"         -> BinaryOpNode(x, "+", IdentifierNode("print", 2))
                 [] fault = "zero"         -> BinaryOpNode(x, "/", NumberNode(0))
                 [] fault = "notcallable"  -> CallNode(x, <<NumberNode(1)>>, 2)
                 [] fault = "unbound_call" -> CallNode(IdentifierNode("h", 2), <<NumberNode(1)>>, 2)
                 [] fault = "unbound_name" -> IdentifierNode("z", 2)
    IN  Program(<<AssignmentNode("x", NumberNode(v)),
                  AssignmentNode("y", rhs),
                  PrintCall(IdentifierNode("x", 3), 3)>>)

Faults == {"type", "zero", "notcallable", "unbound_call", "unbound_name"}
FaultyPrograms == {Faulty(v, fault) : v \in Lits, fault \in Faults}

\* A call whose target is bound to None.
\*   result:                 param:               assigned:
\*   1 def f():              1 def f(g):          1 def f():
\*   2     x = v             2     g(v)           2     x = v
\*   3 g = f()               3 f()                3 g = f()
\*   4 g(v)                                       4 h = g
\*                                                5 h(v)
NoneCall(v, how) ==
    LET f == FunctionDefNode("f", <<>>, <<AssignmentNode("x", NumberNode(v))>>)
        gf == AssignmentNode("g", CallNode(IdentifierNode("f", 3), <<>>, 3))
    IN  CASE how = "result" ->
                Program(<<f, gf, CallNode(IdentifierNode("g", 4), <<NumberNode(v)>>, 4)>>)
          [] how = "param" ->
                Program(<<FunctionDefNode("f", <<"g">>,
                              <<CallNode(IdentifierNode("g", 2), <<NumberNode(v)>>, 2)>>),
                          CallNode(IdentifierNode("f", 3), <<>>, 3)>>)
          [] how = "assigned" ->
                Program(<<f, gf, AssignmentNode("h", IdentifierNode("g", 4)),
                          CallNode(IdentifierNode("h", 5), <<NumberNode(v)>>, 5)>>)

NoneCallHows == {"result", "param", "assigned"}
NoneCallPrograms == {NoneCall(v, how) : v \in Lits, how \in NoneCallHows}

\* A function whose first call writes t and whose later call reads t
\* without writing it.
\*   nested:                  single:                top:                  recursive:
\*   1 def f(a):              1 def f(a):            1 def f(a):           1 def f(a):
\*   2     if a:              2     if a:            2     if a == 0:      2     if a == 0:
\*   3         t = v          3         t = v        3         return t    3         return t
\*   4         if a:          4         return 0     4     t = v           4     t = v
\*   5             return 0   5     return t         5     return 0        5     return f(0)
\*   6     return t           6 f(1)                 6 f(1)                6 r = f(1)
\*   7 f(1)                   7 r = f(0)             7 r = f(0)            7 print(r)
\*   8 r = f(0)               8 print(r)             8 print(r)
\*   9 print(r)
LaterCall(v, how) ==
    LET a(L) == IdentifierNode("a", L)
        tv == AssignmentNode("t", NumberNode(v))
        ret0 == ReturnNode(NumberNode(0))
        rett(L) == ReturnNode(IdentifierNode("t", L))
        a0 == BinaryOpNode(a(2), "==", NumberNode(0))
        callf(n, L) == CallNode(IdentifierNode("f", L), <<NumberNode(n)>>, L)
        body == CASE how = "nested" ->
                        <<IfNode(a(2), <<tv, IfNode(a(4), <<ret0>>, <<>>, <<>>)>>, <<>>, <<>>),
                          rett(6)>>
                  [] how = "single" ->
                        <<IfNode(a(2), <<tv, ret0>>, <<>>, <<>>), rett(5)>>
                  [] how = "top" ->
                        <<IfNode(a0, <<rett(3)>>, <<>>, <<>>), tv, ret0>>
                  [] how = "recursive" ->
                        <<IfNode(a0, <<rett(3)>>, <<>>, <<>>), tv, ReturnNode(callf(0, 5))>>
        L == CASE how = "nested" -> 7 [] how = "recursive" -> 5 [] OTHER -> 6
        f == FunctionDefNode("f", <<"a">>, body)
    IN  IF how = "recursive"
        THEN Program(<<f, AssignmentNode("r", callf(1, 6)), PrintCall(IdentifierNode("r", 7), 7)>>)
        ELSE Program(<<f, callf(1, L), AssignmentNode("r", callf(0, L + 1)),
                       PrintCall(IdentifierNode("r", L + 2), L + 2)>>)

LaterCallHows == {"nested", "single", "top", "recursive"}
LaterCallPrograms == {LaterCall(v, how) : v \in Lits, how \in LaterCallHows}

InterpretedPrograms ==
    LaterCallPrograms \cup VariablesScopePrograms \cup WhileSumPrograms \cup RecursionPrograms
        \cup ClosurePrograms \cup CallerScopePrograms \cup ReturnPlacementPrograms
        \cup ShadowPrograms \cup ShortCallPrograms \cup FaultyPrograms
        \cup NoneCallPrograms

\* The statements the generated programs are built from; L is the line of
\* the statement's first token.
\*   1  x = 1                2  y = x               3  y = z + 1
\*   4  print(y)             5  g(x)                6  if x:
\*   7  while y:             8  def f(p):                  z = 1
\*          x = z                   q = p              else:
\*                                  return q + x           y = z
\*   9  x = print           10  z = f              11  y = q
\*  12  g(w)                13  def k(p):
\*                                  def h(r):
\*                                      return r + p
\*                                  s = h(p)
Stmt(c, L) ==
    CASE c = 1  -> AssignmentNode("x", NumberNode(1))
      [] c = 2  -> AssignmentNode("y", IdentifierNode("x", L))
      [] c = 3  -> AssignmentNode("y", BinaryOpNode(IdentifierNode("z", L), "+", NumberNode(1)))
      [] c = 4  -> PrintCall(IdentifierNode("y", L), L)
      [] c = 5  -> CallNode(IdentifierNode("g", L), <<IdentifierNode("x", L)>>, L)
      [] c = 6  -> IfNode(IdentifierNode("x", L), <<AssignmentNode("z", NumberNode(1))>>, <<>>,
                          <<AssignmentNode("y", IdentifierNode("z", L + 3))>>)
      [] c = 7  -> WhileNode(IdentifierNode("y", L), <<AssignmentNode("x", IdentifierNode("z", L + 1))>>)
      [] c = 8  -> FunctionDefNode("f", <<"p">>,
                      <<AssignmentNode("q", IdentifierNode("p", L + 1)),
                        ReturnNode(BinaryOpNode(IdentifierNode("q", L + 2), "+", IdentifierNode("x", L + 2)))>>)
      [] c = 9  -> AssignmentNode("x", IdentifierNode("print", L))
      [] c = 10 -> AssignmentNode("z", IdentifierNode("f", L))
      [] c = 11 -> AssignmentNode("y", IdentifierNode("q", L))
      [] c = 12 -> CallNode(IdentifierNode("g", L), <<IdentifierNode("w", L)>>, L)
      [] c = 13 -> FunctionDefNode("k", <<"p">>,
                      <<FunctionDefNode("h", <<"r">>,
                            <<ReturnNode(BinaryOpNode(IdentifierNode("r", L + 2), "+", IdentifierNode("p", L + 2)))>>),
                        AssignmentNode("s", CallNode(IdentifierNode("h", L + 3), <<IdentifierNode("p", L + 3)>>, L + 3))>>)

StmtChoices == 1..13
\* lines taken by one statement of the pool
Stride == 4

\* the programs of at most MaxStmts statements of the pool
GeneratedPrograms ==
    {Program([i \in 1..Len(cs) |-> Stmt(cs[i], Stride * (i - 1) + 1)]) :
        cs \in UNION {[1..n -> StmtChoices] : n \in 1..MaxStmts}}

CheckedPrograms == InterpretedPrograms \cup GeneratedPrograms

(***************************************************************************)
(* The source texts handed to run_file, as the tokens the lexer yields.    *)
(***************************************************************************)
\* the text of a decimal literal
literal ==
    [n \in 0..9 |->
        CASE n = 0 -> "0" [] n = 1 -> "1" [] n = 2 -> "2" [] n = 3 -> "3"
          [] n = 4 -> "4" [] n = 5 -> "5" [] n = 6 -> "6" [] n = 7 -> "7"
          [] n = 8 -> "8" [] n = 9 -> "9"]

NUMBER(n, lineno) == Token("NUMBER", literal[n], lineno)
NAME(s, lineno) == Token("NAME", s, lineno)
OP(s, lineno) == Token("OP", s, lineno)
NEWLINE(lineno) == Token("NEWLINE", "", lineno)
INDENT(lineno) == Token("INDENT", "", lineno)
DEDENT(lineno) == Token("DEDENT", "", lineno)
EOF(lineno) == Token("EOF", "", lineno)

Operands == 0..MaxOperand
\* the operand triple of the precedence example, and the bounded ones: three
\* different operands, so that a grouping is told from its parse tree
OperandTriples == {<<2, 3, 4>>} \cup {<<a, a + 1, a + 2>> : a \in Operands}

ComparisonOps == {"==", "!=", "<", "<=", ">", ">="}
ArithOps == {"+", "-"}
TermOps == {"*", "/"}
Operators == ComparisonOps \cup ArithOps \cup TermOps

\*   1 print(a op1 b op2 c)
ChainSource(a, op1, b, op2, c) ==
    <<NAME("print", 1), OP("(", 1), NUMBER(a, 1), OP(op1, 1), NUMBER(b, 1),
      OP(op2, 1), NUMBER(c, 1), OP(")", 1), NEWLINE(1), EOF(2)>>

ChainSources ==
    {ChainSource(t[1], op1, t[2], op2, t[3]) :
        t \in OperandTriples, op1 \in Operators, op2 \in Operators}

\* a source text with its i-th token missing
DropToken(toks, i) == SubSeq(toks, 1, i - 1) \o SubSeq(toks, i + 1, Len(toks))

\* examples/expression_precedence.mpy, with each of its tokens missing in turn
DamagedSources ==
    {DropToken(ChainSource(2, "+", 3, "*", 4), i) : i \in 1..10}

\* examples/error_runtime.mpy:
\*   1 x = a
\*   2 y = x / b
\*   3 print(y)
DivisionSource(a, b) ==
    <<NAME("x", 1), OP("=", 1), NUMBER(a, 1), NEWLINE(1),
      NAME("y", 2), OP("=", 2), NAME("x", 2), OP("/", 2), NUMBER(b, 2), NEWLINE(2),
      NAME("print", 3), OP("(", 3), NAME("y", 3), OP(")", 3), NEWLINE(3), EOF(4)>>

DivisionSources == {DivisionSource(a, b) : a \in Operands, b \in Operands}

\* examples/error_semantic.mpy:
\*   1 y = a
\*   2 print(name)
UseSource(a, name) ==
    <<NAME("y", 1), OP("=", 1), NUMBER(a, 1), NEWLINE(1),
      NAME("print", 2), OP("(", 2), NAME(name, 2), OP(")", 2), NEWLINE(2), EOF(3)>>

UseSources == {UseSource(a, name) : a \in Operands, name \in {"x", "y"}}

\*   L    keyword c(i, v):
\*   L+1      print(m)
BranchLines(keyword, i, v, m, L) ==
    <<NAME(keyword, L), NAME("c", L), OP("(", L), NUMBER(i, L), OP(",", L),
      NUMBER(v, L), OP(")", L), OP(":", L), NEWLINE(L),
      INDENT(L + 1), NAME("print", L + 1), OP("(", L + 1), NUMBER(m, L + 1),
      OP(")", L + 1), NEWLINE(L + 1), DEDENT(L + 2)>>

\* examples/conditionals.mpy with conditions that print when they are
\* evaluated:
\*    1 def c(i, v):
\*    2     print(i)
\*    3     return v
\*    4 if c(0, v0):
\*    5     print(5)
\*    6 elif c(1, v1):
\*    7     print(6)
\*    8 elif c(2, v2):
\*    9     print(7)
\*   10 else:                 (only with_else)
\*   11     print(8)
IfChainSource(v0, v1, v2, with_else) ==
    <<NAME("def", 1), NAME("c", 1), OP("(", 1), NAME("i", 1), OP(",", 1),
      NAME("v", 1), OP(")", 1), OP(":", 1), NEWLINE(1),
      INDENT(2), NAME("print", 2), OP("(", 2), NAME("i", 2), OP(")", 2), NEWLINE(2),
      NAME("return", 3), NAME("v", 3), NEWLINE(3), DEDENT(4)>>
    \o BranchLines("if", 0, v0, 5, 4)
    \o BranchLines("elif", 1, v1, 6, 6)
    \o BranchLines("elif", 2, v2, 7, 8)
    \o (IF with_else
        THEN <<NAME("else", 10), OP(":", 10), NEWLINE(10),
               INDENT(11), NAME("print", 11), OP("(", 11), NUMBER(8, 11),
               OP(")", 11), NEWLINE(11), DEDENT(12), EOF(12)>>
        ELSE <<EOF(10)>>)

IfChainSources ==
    {IfChainSource(v0, v1, v2, e) :
        v0 \in 0..1, v1 \in 0..1, v2 \in 0..1, e \in BOOLEAN}

Sources ==
    ChainSources \cup DamagedSources \cup DivisionSources \cup UseSources
        \cup IfChainSources

(***************************************************************************)
(* Specification.                                                          *)
(***************************************************************************)
\* Interpreter(); Interpreter.run(program): self.env_stack = [self.global_env]
\* SemanticAnalyzer(): the symbol table holds one scope declaring print;
\* analyze(program) visits the program
\* run_file(path, backend): nothing is parsed yet
Init ==
    /\ mode \in {"interpret", "analyze", "run_file"}
    /\ tokens \in IF mode = "run_file" THEN Sources ELSE {<<>>}
    /\ backend \in IF mode = "run_file" THEN {"interpret", "transpile"} ELSE {"none"}
    /\ rc = <<>>
    /\ program \in CASE mode = "interpret" -> InterpretedPrograms
                    [] mode = "analyze" -> CheckedPrograms
                    [] mode = "run_file" -> {NoneNode}
    /\ status = CASE mode = "interpret" -> "running"
                  [] mode = "analyze" -> "checking"
                  [] mode = "run_file" -> "parsing"
    /\ error = NoError
    /\ kont = CASE mode = "interpret" -> <<Body(program.body)>>
                [] mode = "analyze" -> <<Node(program)>>
                [] mode = "run_file" -> <<>>
    /\ vals = <<>>
    /\ env_stack = <<global_env>>
    /\ returning = FALSE
    /\ retval = NoneV
    /\ output = <<>>
    /\ scopes = <<{"print"}>>

Next == InterpreterStep \/ CheckerStep \/ DriverStep

Spec == Init /\ [][Next]_vars

FairSpec == Spec /\ WF_vars(Next)

(***************************************************************************)
(* Static descriptions of a program, used to state the properties.         *)
(***************************************************************************)
RECURSIVE ValueReads(_)
\* the <<name, line>> of every identifier the program reads as a value,
\* that is every IdentifierNode that is not the target of a call
ValueReads(n) ==
    LET Of(seq) == UNION {ValueReads(seq[i]) : i \in DOMAIN seq} IN
    CASE n.kind = "IdentifierNode"  -> {<<n.name, n.lineno>>}
      [] n.kind = "BinaryOpNode"    -> ValueReads(n.left) \cup ValueReads(n.right)
      [] n.kind = "AssignmentNode"  -> ValueReads(n.value)
      [] n.kind = "CallNode"        -> Of(n.args)
      [] n.kind = "IfNode"          ->
            ValueReads(n.condition) \cup Of(n.then_body) \cup Of(n.else_body)
              \cup UNION {ValueReads(n.elifs[i].cond) \cup Of(n.elifs[i].body) : i \in DOMAIN n.elifs}
      [] n.kind = "WhileNode"       -> ValueReads(n.condition) \cup Of(n.body)
      [] n.kind = "FunctionDefNode" -> Of(n.body)
      [] n.kind = "ReturnNode"      -> ValueReads(n.value)
      [] n.kind = "Program"         -> Of(n.body)
      [] OTHER                      -> {}

RECURSIVE BoundBy(_, _)
\* the names statement n binds in the scope it stands in: the names it
\* assigns, in its if/elif/else and while blocks too but not in the bodies
\* of the functions it defines, and, when defs is TRUE, the names of the
\* functions it defines
BoundBy(n, defs) ==
    LET Of(seq) == UNION {BoundBy(seq[i], defs) : i \in DOMAIN seq} IN
    CASE n.kind = "AssignmentNode"  -> {n.name}
      [] n.kind = "IfNode"          ->
            Of(n.then_body) \cup Of(n.else_body)
              \cup UNION {Of(n.elifs[i].body) : i \in DOMAIN n.elifs}
      [] n.kind = "WhileNode"       -> Of(n.body)
      [] n.kind = "FunctionDefNode" -> IF defs THEN {n.name} ELSE {}
      [] OTHER                      -> {}

BoundIn(stmts, defs) == UNION {BoundBy(stmts[i], defs) : i \in DOMAIN stmts}

RECURSIVE UnboundReads(_, _, _)
\* the value reads under n of a name that no enclosing scope binds; bound
\* holds the names bound by the scopes enclosing n
UnboundReads(n, bound, defs) ==
    LET Of(seq, b) == UNION {UnboundReads(seq[i], b, defs) : i \in DOMAIN seq} IN
    CASE n.kind = "IdentifierNode"  -> IF n.name \in bound THEN {} ELSE {<<n.name, n.lineno>>}
      [] n.kind = "BinaryOpNode"    -> UnboundReads(n.left, bound, defs) \cup UnboundReads(n.right, bound, defs)
      [] n.kind = "AssignmentNode"  -> UnboundReads(n.value, bound, defs)
      [] n.kind = "CallNode"        -> Of(n.args, bound)
      [] n.kind = "IfNode"          ->
            UnboundReads(n.condition, bound, defs) \cup Of(n.then_body, bound) \cup Of(n.else_body, bound)
              \cup UNION {UnboundReads(n.elifs[i].cond, bound, defs) \cup Of(n.elifs[i].body, bound)
                            : i \in DOMAIN n.elifs}
      [] n.kind = "WhileNode"       -> UnboundReads(n.condition, bound, defs) \cup Of(n.body, bound)
      [] n.kind = "FunctionDefNode" ->
            Of(n.body, bound \cup {n.params[i] : i \in DOMAIN n.params} \cup BoundIn(n.body, defs))
      [] n.kind = "ReturnNode"      -> UnboundReads(n.value, bound, defs)
      [] n.kind = "Program"         -> Of(n.body, bound \cup BoundIn(n.body, defs))
      [] OTHER                      -> {}

\* the value reads of an identifier never assigned and never declared as a
\* parameter in any enclosing scope
NeverAssignedReads(p) == UnboundReads(p, {}, FALSE)

\* the same, not counting the reads of print nor of a name some enclosing
\* scope defines as a function
NeverDeclaredReads(p) == UnboundReads(p, {"print"}, TRUE)

RECURSIVE FibValue(_)
FibValue(k) == IF k < 2 THEN k ELSE FibValue(k - 1) + FibValue(k - 2)

RECURSIVE FactValue(_)
FactValue(k) == IF k <= 1 THEN 1 ELSE k * FactValue(k - 1)

Interpreted == mode = "interpret"
Analyzed == mode = "analyze"
Printed(seq) == [i \in 1..Len(seq) |-> <<Num(seq[i])>>]

\* the depth recorded by the innermost call in progress, 0 outside any call
CallDepth ==
    LET idx == {i \in 1..Len(kont) : kont[i].op = "call_try"}
    IN  IF idx = {} THEN 0
        ELSE kont[CHOOSE i \in idx : \A j \in idx : i <= j].depth

InCall == \E i \in 1..Len(kont) : kont[i].op = "call_try"

(***************************************************************************)
(* Properties.                                                             *)
(***************************************************************************)

\* C1: a binding written inside an executed if/elif/else branch is visible
\* in the enclosing frame after the block: x = a, print(x), x = b inside
\* the branch taken, print(x) prints a then b.
C1_BlockWriteVisible ==
    \A a \in Lits, b \in Lits, br \in {"then", "elif", "else"} :
        (Interpreted /\ program = VariablesScope(a, b, br) /\ status = "done")
            => output = Printed(<<a, b>>)

\* C2: the while loop summing 1..n into an accumulator, whose condition
\* reads the counter its body increments, eventually terminates, and the
\* accumulator printed after the loop is n(n+1)/2 (10 for n = 4).
C2_WhileSumTerminates ==
    \A n \in 0..MaxSum :
        (Interpreted /\ program = WhileSum(n))
            ~> (status = "done" /\ output = Printed(<<(n * (n + 1)) \div 2>>))

\* C3: a call of the self-recursive fib or fact ends without error and
\* prints the mathematically correct value, for every argument 0..MaxArg.
C3_RecursionCorrect ==
    \A k \in 0..MaxArg :
        /\ (Interpreted /\ program = Fib(k)) =>
              /\ status # "failed"
              /\ status = "done" => output = Printed(<<FibValue(k)>>)
        /\ (Interpreted /\ program = Fact(k)) =>
              /\ status # "failed"
              /\ status = "done" => output = Printed(<<FactValue(k)>>)

\* C4: when a call of a user function returns, by a return statement placed
\* anywhere in the body or by the end of the body, the environment stack
\* has the depth and the top frame it had immediately before the call.
C4_CallRestoresStack ==
    [][(Interpreted /\ status = "running" /\ HeadIs("call_try"))
          => /\ Len(env_stack') = Head(kont).depth
             /\ env_stack'[Len(env_stack')] = Head(kont).top]_vars

\* C5: a function defined inside another and reading a variable of the
\* enclosing function yields, on every later call, the value the variable
\* had when the inner function was defined, also when the variable is
\* reassigned between the definition and the call.
C5_ClosureSnapshot ==
    \A a \in Lits, b \in Lits, how \in ClosureHows :
        (Interpreted /\ program = Closure(a, b, how)) =>
            /\ status # "failed"
            /\ \A i \in 1..Len(output) : output[i] = <<Num(a)>>
            /\ status = "done" => Len(output) = IF how = "later" THEN 2 ELSE 1

C5_Witness ==
    \E a \in Lits, b \in Lits :
        /\ a # b
        /\ Interpreted /\ status = "done"
        /\ program = Closure(a, b, "later")
        /\ output = Printed(<<a, a>>)

\* C6: name resolution is lexical.  In a program whose functions are all
\* defined at the program level, a read inside a function body resolves to
\* no frame, to the program's frame or to a frame pushed since the call
\* began, never to a frame of the caller.
C6_LexicalResolution ==
    (/\ Interpreted /\ status = "running" /\ ~returning
     /\ program \in CallerScopePrograms \cup RecursionPrograms \cup ReturnPlacementPrograms
     /\ HeadNode("IdentifierNode")
     /\ InCall)
        => LET f == FindFrame(env_stack, Head(kont).node.name)
           IN  f = 0 \/ f = 1 \/ f > CallDepth

\* C7: the binding step of an assignment binds or overwrites the name in
\* the topmost frame only: the stack keeps its depth, every other frame and
\* every other binding of the top frame are unchanged.
C7_AssignTopFrameOnly ==
    [][(Interpreted /\ status = "running" /\ ~returning /\ HeadIs("assign_bind"))
          => LET d == Len(env_stack)
                 name == Head(kont).name
             IN  /\ Len(env_stack') = d
                 /\ \A i \in 1..(d - 1) : env_stack'[i] = env_stack[i]
                 /\ DOMAIN env_stack'[d] = DOMAIN env_stack[d] \cup {name}
                 /\ env_stack'[d][name] = vals[Len(vals)]
                 /\ \A n \in DOMAIN env_stack[d] \ {name} : env_stack'[d][n] = env_stack[d][n]]_vars

C7_Witness ==
    \E a \in Lits, b \in Lits :
        /\ a # b
        /\ Interpreted /\ program = Shadow(a, b, FALSE)
        /\ Len(env_stack) = 2
        /\ "x" \in DOMAIN env_stack[1] /\ env_stack[1]["x"] = Num(a)
        /\ "x" \in DOMAIN env_stack[2] /\ env_stack[2]["x"] = Num(b)

\* C8 as stated: a program that reads as a value an identifier never
\* assigned and never declared as a parameter in any enclosing scope is
\* rejected, and the error names such an identifier and the line of the
\* read.
C8_Original ==
    (Analyzed /\ status \in {"accepted", "rejected"} /\ NeverAssignedReads(program) # {})
        => /\ status = "rejected"
           /\ <<error.name, error.lineno>> \in NeverAssignedReads(program)

\* C8 amended: a program that reads as a value an identifier that is not
\* print and that no enclosing scope assigns, defines as a function or
\* declares as a parameter is rejected; the error of a rejection names the
\* identifier and the line of the value read being visited, a name that no
\* scope on the scope stack declares at that point.
C8_UndeclaredRejected ==
    /\ [](Analyzed /\ status \in {"accepted", "rejected"} /\ NeverDeclaredReads(program) # {}
            => status = "rejected")
    /\ [](Analyzed /\ status = "rejected"
            => /\ error.kind = "CompilerError"
               /\ <<error.name, error.lineno>> \in ValueReads(program)
               /\ \A i \in 1..Len(scopes) : error.name \notin scopes[i])
    /\ [][(Analyzed /\ status' = "rejected" /\ status # "rejected")
            => /\ HeadNode("IdentifierNode")
               /\ error'.name = Head(kont).node.name
               /\ error'.lineno = Head(kont).node.lineno]_vars

C8_Witness ==
    /\ Analyzed /\ status = "rejected"
    /\ program = Program(<<Stmt(1, 1), Stmt(8, Stride + 1), Stmt(11, 2 * Stride + 1)>>)
    /\ error.name = "q" /\ error.lineno = 2 * Stride + 1

\* C9: the checker never rejects a program because of the identifier used
\* as a call target: the visit of a call checks nothing itself and leaves
\* exactly the arguments to be visited, and every rejection names an
\* identifier read as a value.
C9_CallTargetPermissive ==
    /\ [](Analyzed /\ status = "rejected"
            => <<error.name, error.lineno>> \in ValueReads(program))
    /\ [][(Analyzed /\ status = "checking" /\ HeadNode("CallNode"))
            => /\ status' = "checking"
               /\ scopes' = scopes
               /\ kont' = NodeItems(Head(kont).node.args) \o Tail(kont)]_vars

\* x = 1 / g(x): g is declared nowhere
C9_Witness ==
    /\ Analyzed /\ status = "accepted"
    /\ program = Program(<<Stmt(1, 1), Stmt(5, Stride + 1)>>)

\* C10: the scope stack holds the program scope plus one scope per function
\* body being visited; the end of the visit of a function definition leaves
\* the stack as it was when the function scope was entered; after a
\* successful check the stack is the program scope alone, which declares
\* print and the names assigned or defined at the program level, in
\* if/elif/else and while blocks too, and nothing else.
C10_ScopeStack ==
    /\ [](Analyzed /\ status \in {"checking", "accepted"}
            => Len(scopes) = 1 + Cardinality({i \in 1..Len(kont) : kont[i].op = "symtab_exit"}))
    /\ [](Analyzed /\ status = "accepted"
            => scopes = <<{"print"} \cup BoundIn(program.body, TRUE)>>)
    /\ [][(Analyzed /\ status = "checking" /\ HeadIs("symtab_exit"))
            => scopes' = Head(kont).outer]_vars

\* x = 1 / if x: z = 1 else: y = z / def f(p): q = p; return q + x
C10_Witness ==
    /\ Analyzed /\ status = "accepted"
    /\ program = Program(<<Stmt(1, 1), Stmt(6, Stride + 1), Stmt(8, 2 * Stride + 1)>>)
    /\ scopes = <<{"print", "x", "y", "z", "f"}>>

\* the calls run_file makes, by the status they run under
InParse == status = "parsing"
InCheck == status = "checking"
InExecute == status \in {"running", "executing"}

DividingByZero ==
    /\ status = "running" /\ ~returning /\ HeadIs("binop_apply")
    /\ Head(kont).operator = "/"
    /\ IsNumeric(vals[Len(vals) - 1])
    /\ IsNumeric(vals[Len(vals)]) /\ Numer(vals[Len(vals)]) = 0

\* C12: a / b with b zero fails with the division-by-zero error.  The step
\* that applies the operator pushes no value, writes no binding, prints
\* nothing, drops every pending statement and ends the run as failed; a
\* failed run stays failed and unchanged, and run_file returns 1 for it.
C12_DivisionByZeroFails ==
    [][/\ DividingByZero =>
            /\ status' = "failed"
            /\ error' = [kind |-> "ZeroDivisionError"]
            /\ kont' = <<>>
            /\ UNCHANGED <<vals, env_stack, output>>
       /\ status = "failed" =>
            /\ UNCHANGED <<status, error, kont, vals, env_stack, output>>
            /\ rc' = <<1>>
    ]_vars

\* examples/error_runtime.mpy failed at line 2: x is bound, y is not, and
\* print(y) did not run
C12_Witness ==
    /\ mode = "run_file" /\ backend = "interpret"
    /\ tokens \in DivisionSources
    /\ status = "failed" /\ error = [kind |-> "ZeroDivisionError"] /\ rc = <<1>>
    /\ DOMAIN env_stack[1] = {"print", "x"}
    /\ output = <<>>

\* eval_CallNode is about to call a user function with fewer arguments than
\* the function has parameters
ShortCalling ==
    /\ status = "running" /\ ~returning /\ HeadIs("call_apply")
    /\ Head(kont).fn.t = "fn"
    /\ Head(kont).nargs < Len(Head(kont).fn.params)

\* C13: a call with fewer arguments than parameters is not an error.  The
\* call pushes one frame in which the i-th parameter is bound to the i-th
\* argument, every parameter beyond the arguments is bound to None, and the
\* other names are those of the captured environment; the run goes on with
\* the body.  The example prints the arguments and None for the missing ones.
C13_ShortCallBindsNone ==
    /\ [][ShortCalling =>
            LET fn == Head(kont).fn
                nargs == Head(kont).nargs
                args == SubSeq(vals, Len(vals) - nargs + 1, Len(vals))
                newenv == env_stack'[Len(env_stack')]
            IN  /\ status' = "running" /\ error' = NoError
                /\ Len(env_stack') = Len(env_stack) + 1
                /\ \A i \in 1..Len(fn.params) :
                      /\ fn.params[i] \in DOMAIN newenv
                      /\ newenv[fn.params[i]] = IF i <= nargs THEN args[i] ELSE NoneV
                /\ \A n \in DOMAIN fn.env :
                      (\A i \in 1..Len(fn.params) : fn.params[i] # n) =>
                          (n \in DOMAIN newenv /\ newenv[n] = fn.env[n])
                /\ kont' # <<>> /\ Head(kont') = Body(fn.body)
       ]_vars
    /\ [](\A v \in Lits, nargs \in 0..2 :
            (Interpreted /\ program = ShortCall(v, nargs) /\ status # "running") =>
                /\ status = "done"
                /\ output = <<<<IF nargs >= 1 THEN Num(v + 1) ELSE NoneV,
                                IF nargs >= 2 THEN Num(v + 2) ELSE NoneV>>,
                              <<IF nargs >= 2 THEN Num(v + 2) ELSE NoneV>>>>)

\* f, which has two parameters, was called with one argument and returned
C13_Witness ==
    \E v \in Lits :
        /\ Interpreted /\ program = ShortCall(v, 1)
        /\ status = "done"
        /\ output = <<<<Num(v + 1), NoneV>>, <<NoneV>>>>

\* the number a decimal literal of the source text denotes
LiteralOf(tok) == CHOOSE n \in 0..9 : literal[n] = tok.value

\* the precedence level of a binary operator, higher binds tighter
Level(op) == IF op \in TermOps THEN 3 ELSE IF op \in ArithOps THEN 2 ELSE 1

\* the tree the rule (left-associative, three levels) gives for a op1 b op2 c
Grouping(a, op1, b, op2, c) ==
    IF Level(op2) > Level(op1)
    THEN BinaryOpNode(NumberNode(a), op1, BinaryOpNode(NumberNode(b), op2, NumberNode(c)))
    ELSE BinaryOpNode(BinaryOpNode(NumberNode(a), op1, NumberNode(b)), op2, NumberNode(c))

\* C14: binary operator chains are parsed left-associatively with * / above
\* + - above the comparisons.  For every source text print(a op1 b op2 c)
\* the parser returns the tree the rule gives; interpreted, 2 + 3 * 4 prints
\* 14, a - b - c prints (a - b) - c, a - b * c prints a - (b * c) and
\* a * b - c prints (a * b) - c.
C14_Precedence ==
    (mode = "run_file" /\ tokens \in ChainSources /\ status # "parsing") =>
        LET a == LiteralOf(tokens[3])
            op1 == tokens[4].value
            b == LiteralOf(tokens[5])
            op2 == tokens[6].value
            c == LiteralOf(tokens[7])
            ran == backend = "interpret" /\ rc # <<>>
        IN  /\ program = Program(<<PrintCall(Grouping(a, op1, b, op2, c), 1)>>)
            /\ (ran /\ op1 = "-" /\ op2 = "-") =>
                    (rc = <<0>> /\ output = <<<<Num((a - b) - c)>>>>)
            /\ (ran /\ op1 = "-" /\ op2 = "*") =>
                    (rc = <<0>> /\ output = <<<<Num(a - (b * c))>>>>)
            /\ (ran /\ op1 = "*" /\ op2 = "-") =>
                    (rc = <<0>> /\ output = <<<<Num((a * b) - c)>>>>)
            /\ (ran /\ op1 = "+" /\ op2 = "*" /\ <<a, b, c>> = <<2, 3, 4>>) =>
                    (rc = <<0>> /\ output = <<<<Num(14)>>>>)

\* print(2 + 3 * 4) was parsed, checked and interpreted, and printed 14
C14_Witness ==
    /\ mode = "run_file" /\ backend = "interpret"
    /\ tokens = ChainSource(2, "+", 3, "*", 4)
    /\ rc = <<0>>
    /\ output = <<<<Num(14)>>>>

\* the errors the checker and the interpreter report
ReportedErrors == {"CompilerError", "NameError", "TypeError", "ZeroDivisionError", "RuntimeError"}

\* C15: every error reported by the checker or the interpreter carries the
\* 1-based source line of the node that failed.
C15_ErrorsCarryLine ==
    (status \in {"failed", "rejected"} /\ error.kind \in ReportedErrors) =>
        ("lineno" \in DOMAIN error /\ error.lineno >= 1)

\* the target of the call about to be resolved, and the frame that binds it
CallTarget == Head(kont).node.func.name
TargetFrame == FindFrame(env_stack, CallTarget)

\* C16: a call whose target is bound in some frame to a value that is
\* neither a user function nor a built-in (None included) fails with the
\* not-callable error; the resolution of a call target raises the
\* name-not-found error only when no frame binds the target.
C16_NotCallable ==
    [][(status = "running" /\ ~returning) =>
          /\ (HeadNode("CallNode") /\ TargetFrame # 0 /\
                 env_stack[TargetFrame][CallTarget].t \notin {"fn", "builtin"}) =>
                    ~(status' = "failed" /\ error'.kind = "NameError")
          /\ (HeadIs("call_apply") /\ Head(kont).fn.t \notin {"fn", "builtin"}) =>
                    (status' = "failed" /\ error'.kind = "RuntimeError")
          /\ (HeadNode("CallNode") /\ status' = "failed" /\ error'.kind = "NameError") =>
                    TargetFrame = 0
      ]_vars

\* what the if chain prints by the rule: the index of every condition up to
\* and including the first true one, then the mark of that branch alone; the
\* mark of the else body when no condition is true and there is an else
IfChainPrints(v0, v1, v2, with_else) ==
    CASE v0 # 0 -> <<0, 5>>
      [] v0 = 0 /\ v1 # 0 -> <<0, 1, 6>>
      [] v0 = 0 /\ v1 = 0 /\ v2 # 0 -> <<0, 1, 2, 7>>
      [] OTHER -> IF with_else THEN <<0, 1, 2, 8>> ELSE <<0, 1, 2>>

IsPrefix(s, t) == Len(s) <= Len(t) /\ SubSeq(t, 1, Len(s)) = s

\* C17: one evaluation of an If node runs at most one branch: the then-body
\* when the condition is true, else the body of the first elif, in
\* declaration order, whose condition is true, else the else-body when
\* there is one; no condition after the first true one is evaluated.  The
\* parser keeps the elifs in declaration order; at every moment the output
\* is a prefix of what the rule prints, and the run ends done with all of it.
C17_OneBranch ==
    \A v0 \in 0..1, v1 \in 0..1, v2 \in 0..1, e \in BOOLEAN :
        (mode = "run_file" /\ backend = "interpret" /\ status # "parsing"
            /\ tokens = IfChainSource(v0, v1, v2, e)) =>
            LET node == program.body[2]
                prints == Printed(IfChainPrints(v0, v1, v2, e))
            IN  /\ node.kind = "IfNode"
                /\ Len(node.elifs) = 2
                /\ \A k \in 1..2 : node.elifs[k].cond.args[1] = NumberNode(k)
                /\ (node.else_body # <<>>) = e
                /\ IsPrefix(output, prints)
                /\ status \notin {"failed", "rejected"}
                /\ (rc # <<>>) => (rc = <<0>> /\ output = prints)

\* the first condition was false and the second true: the second branch
\* ran, the third condition was not evaluated
C17_Witness ==
    /\ mode = "run_file" /\ backend = "interpret"
    /\ tokens = IfChainSource(0, 1, 1, TRUE)
    /\ rc = <<0>>
    /\ output = Printed(<<0, 1, 6>>)

\* eval_CallNode is about to call a user function
CallingFunction ==
    /\ status = "running" /\ ~returning /\ HeadIs("call_apply")
    /\ Head(kont).fn.t = "fn"

\* C18: a call leaves the captured environment of the function value
\* unchanged and starts from the captured bindings plus its own parameters:
\* the frame a call pushes binds the parameters and otherwise exactly the
\* names of the snapshot, with the snapshot's values; a binding written by
\* the body during one call is not visible in a later call of the same
\* function, so that the later call of f, which reads t without writing it,
\* fails with name-not-found and nothing is printed.
C18_CallsIsolated ==
    /\ [][CallingFunction =>
            LET fn == Head(kont).fn
                ps == {fn.params[i] : i \in 1..Len(fn.params)}
                newenv == env_stack'[Len(env_stack')]
            IN  /\ Len(env_stack') = Len(env_stack) + 1
                /\ DOMAIN newenv = DOMAIN fn.env \cup ps
                /\ \A n \in DOMAIN fn.env \ ps : newenv[n] = fn.env[n]
       ]_vars
    /\ [](\A v \in Lits, how \in LaterCallHows :
            (Interpreted /\ program = LaterCall(v, how) /\ status # "running") =>
                /\ status = "failed"
                /\ error.kind = "NameError" /\ error.name = "t"
                /\ output = <<>>)

====
